---- MODULE Spec2Model ----
(***************************************************************************)
(* Model of the mumble-web gateway (apps/gateway) and of the uplink queue *)
(* of its browser client.                                                  *)
(*                                                                         *)
(*   Spec       the per-peer session supervisor of the WebSocket server    *)
(*              (wss.on('connection') in the gateway entry point), with    *)
(*              the Mumble TLS control client and the session object it    *)
(*              drives.                                                    *)
(*   SpecView   the same supervisor against a server that keeps changing   *)
(*              its channel and user registry.                             *)
(*   SpecUplink one MumbleSession's outbound voice path: the sequence      *)
(*              counter and the choice of transport.                       *)
(*   SpecDedup  one MumbleSession's inbound voice path: the map that       *)
(*              de-duplicates frames arriving over UDP and the tunnel.     *)
(*   SpecPacer  the uplink pacer of one peer connection: the queue of      *)
(*              microphone frames and its 20 ms tick.                      *)
(*   SpecDownlink the voiceOpus forwarder and sendJson of one connection.  *)
(*   SpecFallback one MumbleSession's UDP voice client and the timer that  *)
(*              falls back to the tunnel.                                  *)
(*   SpecCrypt  one CryptStateOCB2 receiving the datagrams of its peer,    *)
(*              with loss, reordering and replay on the way.               *)
(*   SpecCodec  the Mumble varint and the legacy voice packet, written and *)
(*              read back.                                                 *)
(*   SpecAead   OCB2-AES128 of one datagram between two CryptStateOCB2.    *)
(*   SpecUdp    one MumbleUdpVoiceClient with its CryptStateOCB2, between  *)
(*              the CryptSetup messages and the datagrams of a server.     *)
(*   SpecPacerLive the uplink pacer with an interval timer that keeps      *)
(*              firing while it is set.                                    *)
(*   SpecCap    a flood of frames on the uplink pacer, and the uplink      *)
(*              queue of the browser (apps/web).                           *)
(*   SpecTeardown one Session object from the connect branch to cleanup(), *)
(*              with its pacer, Mumble session, TLS and UDP client.        *)
(***************************************************************************)
EXTENDS Integers, Sequences, FiniteSets, TLC

-----------------------------------------------------------------------------
(* Bounds of the supervisor model *)

\* connect requests with a whitelisted serverId handled on one peer connection
MaxConnects == 2

-----------------------------------------------------------------------------
(* Supervisor state *)

VARIABLES
  wsOpen,           \* ws.readyState === ws.OPEN
  session,          \* `let session`: 0 is null, else the connect whose result it holds
  metricsInterval,  \* `let metricsInterval`: 0 is null, else the connect that set it
  liveTimers,       \* metrics intervals created by setInterval and never cleared
  conns,            \* per connect request: the TLS client, MumbleSession, listeners
  peer,             \* the registry the peer holds after applying what it was sent
  sent,             \* messages sent to the peer by the last handler, in order
  wire,             \* messages written to Mumble sockets by the last handler
  last,             \* which handler ran last, and what it started from
  retired           \* sessions that cleanup() has torn down

VARIABLES
  outSequence,        \* MumbleSession._outSequence
  udpReady,           \* MumbleUdpVoiceClient.udpReady
  calls,              \* sendOpusFrame / sendOpusEnd calls made so far
  packets,            \* voice packets handed to a transport, in order
  recentVoiceFrames,  \* MumbleSession._recentVoiceFrames, in insertion order
  now,                \* Date.now()
  advances,           \* clock steps taken
  bursts,             \* tunnelled bursts received
  delivered,          \* key -> time of the last copy emitted as voiceOpus (-1: none)
  cleared,            \* key -> the map was cleared since that copy was recorded
  vlast               \* the last voice frame fed to _emitVoice and its outcome

supVars == <<wsOpen, session, metricsInterval, liveTimers, conns, peer, sent, wire, last, retired>>
voiceVars == <<outSequence, udpReady, calls, packets, recentVoiceFrames, now, advances,
               bursts, delivered, cleared, vlast>>

VARIABLES
  pacer,              \* session.uplinkPacer, with the uplink counters around it
  down,               \* the peer's WebSocket send side and the downlink counters
  fallback,           \* one Mumble session's UDP client and its fallback timer
  crypt,              \* a sending and a receiving CryptStateOCB2 and the datagrams between
  codec,              \* the last value or packet encoded and what was read back
  aead,               \* the last plaintext encrypted and what decrypt made of the datagram
  udpVoice,           \* a MumbleUdpVoiceClient, the server's CryptStateOCB2 and the last step
  teardown,           \* the supervisor's session with everything cleanup() reaches
  browser,            \* the browser's uplink queue, its pacer and its WebSocket
  tcpClient           \* a MumbleTcpClient, its TLS socket and the server behind it

moreVars == <<pacer, down, fallback, crypt, codec, aead, udpVoice, teardown, browser, tcpClient>>
vars == <<supVars, voiceVars, moreVars>>

ConnIds == 1..MaxConnects

\* The whitelist loaded at startup (config/servers.json).
servers ==
  << [id |-> "local", host |-> "h1", port |-> 64738],
     [id |-> "lan", host |-> "h2", port |-> 64739] >>

\* serverId values a peer may put in a connect message
RequestedIds == {"lan", "nope"}

ChannelIds == {1}
UserIds == {7}

\* a lookup that falls back to the first entry when no id matches
findMut(serverId) ==
  LET hits == {k \in DOMAIN servers : servers[k].id = serverId}
  IN IF hits = {} THEN 1 ELSE CHOOSE k \in hits : \A j \in hits : k <= j

\* servers.find((s) => s.id === msg.serverId): index of the first match, 0 if none
find(serverId) ==
  LET hits == {k \in DOMAIN servers : servers[k].id = serverId}
  IN IF hits = {} THEN 0 ELSE CHOOSE k \in hits : \A j \in hits : k <= j

NoConn ==
  [phase |-> "unused", req |-> "", host |-> "", port |-> 0,
   udpHost |-> "", udpPort |-> 0,
   sock |-> "none", closed |-> FALSE, keepalive |-> FALSE,
   relay |-> FALSE, fwd |-> FALSE,
   selfUserId |-> 0, channels |-> {}, users |-> {},
   cancelled |-> FALSE]

NoLast == [op |-> "init", conn |-> 0, before |-> 0, req |-> "", threw |-> FALSE, kind |-> ""]

-----------------------------------------------------------------------------
(* Messages *)

Msg(type, code, from) == [type |-> type, code |-> code, from |-> from, channels |-> {}, users |-> {}, id |-> 0, ch |-> 0]

\* sendError(ws, code, ...)
sendError(code, from) == Msg("error", code, from)

ServerMsg(t, id, ch) == [t |-> t, id |-> id, ch |-> ch]

\* control messages a Mumble server may send; ch = -1 is an omitted channel_id
HandshakeMsgs == {ServerMsg("ServerSync", 7, 0), ServerMsg("Reject", 0, 0)}

RegistryMsgs ==
  {ServerMsg("ChannelState", c, 0) : c \in ChannelIds}
  \cup {ServerMsg("ChannelRemove", c, 0) : c \in ChannelIds}
  \cup {ServerMsg("UserState", u, ch) : u \in UserIds, ch \in {-1} \cup ChannelIds}
  \cup {ServerMsg("UserRemove", u, 0) : u \in UserIds}

Event(e, id, ch) == [e |-> e, id |-> id, ch |-> ch]

-----------------------------------------------------------------------------
(* MumbleTcpClient *)

\* MumbleTcpClient.close()
tcpClose(c) ==
  IF c.closed THEN c
  ELSE [c EXCEPT !.closed = TRUE, !.keepalive = FALSE,
                 !.sock = IF c.sock = "open" THEN "closing" ELSE c.sock]

\* MumbleTcpClient.sendMessage: the types actually written to the socket
sendMessage(c, i, type) == IF c.closed THEN <<>> ELSE << [conn |-> i, type |-> type] >>

UserChannel(c, u) ==
  LET hits == {p \in c.users : p[1] = u}
  IN IF hits = {} THEN -1 ELSE (CHOOSE p \in hits : TRUE)[2]

\* MumbleTcpClient._handleMessage: the client afterwards and the events it emitted
handleMessage(c, m) ==
  CASE m.t = "Reject" ->
         [c |-> tcpClose(c), ev |-> << Event("reject", 0, 0) >>]
    [] m.t = "ServerSync" ->
         [c |-> [c EXCEPT !.selfUserId = m.id], ev |-> << Event("serverSync", 0, 0) >>]
    [] m.t = "ChannelState" ->
         [c |-> [c EXCEPT !.channels = @ \cup {m.id}],
          ev |-> << Event("channelUpsert", m.id, 0) >>]
    [] m.t = "ChannelRemove" ->
         [c |-> [c EXCEPT !.channels = @ \ {m.id}],
          ev |-> << Event("channelRemove", m.id, 0) >>]
    [] m.t = "UserState" ->
         LET prev == UserChannel(c, m.id)
             ch == IF m.ch # -1 THEN m.ch ELSE IF prev # -1 THEN prev ELSE 0
         IN [c |-> [c EXCEPT !.users = {p \in @ : p[1] # m.id} \cup {<<m.id, ch>>}],
             ev |-> << Event("userUpsert", m.id, ch) >>]
    [] m.t = "UserRemove" ->
         [c |-> [c EXCEPT !.users = {p \in @ : p[1] # m.id}],
          ev |-> << Event("userRemove", m.id, 0) >>]
    [] OTHER -> [c |-> c, ev |-> <<>>]

-----------------------------------------------------------------------------
(* MumbleSession and the supervisor's forwarders *)

\* MumbleSession.close()
MumbleSessionClose(c) == tcpClose([c EXCEPT !.relay = FALSE])

\* The events MumbleSession relays from the TLS client to its own emitter
Relayed == {"channelUpsert", "channelRemove", "userUpsert", "userRemove", "reject", "error", "disconnected"}

\* attachMumbleEventForwarders: the peer message for one session event
forward(ev, i) ==
  CASE ev.e = "channelUpsert" -> [Msg("channelUpsert", "", i) EXCEPT !.id = ev.id]
    [] ev.e = "channelRemove" -> [Msg("channelRemove", "", i) EXCEPT !.id = ev.id]
    [] ev.e = "userUpsert" -> [Msg("userUpsert", "", i) EXCEPT !.id = ev.id, !.ch = ev.ch]
    [] ev.e = "userRemove" -> [Msg("userRemove", "", i) EXCEPT !.id = ev.id]
    [] ev.e = "reject" -> sendError("mumble_reject", i)
    [] ev.e = "error" -> sendError("mumble_error", i)
    [] OTHER -> Msg("disconnected", "mumble_disconnect", i)

RECURSIVE forwardAll(_, _)
forwardAll(evs, i) ==
  IF evs = <<>> THEN <<>>
  ELSE (IF Head(evs).e \in Relayed THEN << forward(Head(evs), i) >> ELSE <<>>)
       \o forwardAll(Tail(evs), i)

\* What the peer is sent for the events one TLS client emitted
Forwarded(c, i, evs) == IF c.relay /\ c.fwd THEN forwardAll(evs, i) ELSE <<>>

\* The peer applying one message to its registry
applyMsg(view, m) ==
  CASE m.type = "stateSnapshot" -> [channels |-> m.channels, users |-> m.users]
    [] m.type = "channelUpsert" -> [view EXCEPT !.channels = @ \cup {m.id}]
    [] m.type = "channelRemove" -> [view EXCEPT !.channels = @ \ {m.id}]
    [] m.type = "userUpsert" ->
         [view EXCEPT !.users = {p \in @ : p[1] # m.id} \cup {<<m.id, m.ch>>}]
    [] m.type = "userRemove" -> [view EXCEPT !.users = {p \in @ : p[1] # m.id}]
    [] OTHER -> view

RECURSIVE applyAll(_, _)
applyAll(view, msgs) ==
  IF msgs = <<>> THEN view ELSE applyAll(applyMsg(view, Head(msgs)), Tail(msgs))

\* sendJson(ws, msg) for each message: nothing leaves once the socket is not OPEN
Send(msgs) ==
  /\ sent' = IF wsOpen THEN msgs ELSE <<>>
  /\ peer' = IF wsOpen THEN applyAll(peer, msgs) ELSE peer

\* a cleanup() that forgets the session without unsubscribing or closing it
cleanupMut(cs, s) == cs

\* cleanup(): the connections after the current session was torn down
cleanup(cs, s) ==
  IF s = 0 THEN cs
  ELSE [cs EXCEPT ![s] = MumbleSessionClose([cs[s] EXCEPT !.fwd = FALSE])]

InFlight(c) == c.phase \in {"tls", "sync"}

\* the connects that were awaiting when a peer disconnect or close ran cleanup()
MarkCancelled(cs) == [i \in ConnIds |-> IF InFlight(cs[i]) THEN [cs[i] EXCEPT !.cancelled = TRUE] ELSE cs[i]]

Retire(s) == retired' = IF s = 0 THEN retired ELSE retired \cup {s}

Op(op, conn, req, kind, threw) ==
  [op |-> op, conn |-> conn, before |-> session, req |-> req, threw |-> threw, kind |-> kind]

-----------------------------------------------------------------------------
(* The supervisor: ws.on('message') and ws.on('close') *)

\* cleanup(): clearInterval(metricsInterval)
clearMetrics == liveTimers \ {metricsInterval}

Min(S) == CHOOSE k \in S : \A j \in S : k <= j

Free == {i \in ConnIds : conns[i].phase = "unused"}

voiceIdle == UNCHANGED <<voiceVars, moreVars>>

\* A connect whose awaited promise has settled and whose continuation has not run
\* yet: it runs when the handler that settled it has returned to the event loop.
Pending(i) == conns[i].phase \in {"resolved", "rejected"}

\* No continuation is waiting: the event loop is free to run the next handler.
Quiet == \A i \in ConnIds : ~Pending(i)

\* msg.type === 'connect': cleanup(), the whitelist lookup, and connectMumbleServer
\* up to its first await (tls.connect has been called)
Connect(req) ==
  /\ Quiet
  /\ wsOpen
  /\ LET cs == cleanup(conns, session)
         k == find(req)
     IN IF k = 0
        THEN /\ conns' = cs
             /\ Send(<< sendError("unknown_server", 0) >>)
        ELSE /\ Free # {}
             /\ conns' = [cs EXCEPT ![Min(Free)] =
                            [NoConn EXCEPT !.phase = "tls", !.req = req, !.sock = "connecting",
                                           !.host = servers[k].host, !.port = servers[k].port]]
             /\ Send(<<>>)
  /\ session' = 0
  /\ metricsInterval' = 0
  /\ liveTimers' = clearMetrics
  /\ wire' = IF find(req) = 0 THEN <<>> ELSE << [conn |-> Min(Free), type |-> "tls.connect"] >>
  /\ last' = Op("connect", 0, req, "", FALSE)
  /\ Retire(session)
  /\ UNCHANGED wsOpen
  /\ voiceIdle

\* 'secureConnect': MumbleTcpClient.connect sends Version and Authenticate, starts
\* the keepalive, and connectMumbleServer goes on to await ServerSync
TlsConnected(i) ==
  /\ Quiet
  /\ conns[i].phase = "tls"
  /\ conns' = [conns EXCEPT ![i] = [@ EXCEPT !.phase = "sync", !.sock = "open", !.keepalive = TRUE]]
  /\ wire' = << [conn |-> i, type |-> "Version"], [conn |-> i, type |-> "Authenticate"] >>
  /\ Send(<<>>)
  /\ last' = Op("tlsConnected", i, "", "", FALSE)
  /\ UNCHANGED <<wsOpen, session, metricsInterval, liveTimers, retired>>
  /\ voiceIdle

\* the catch block of the connect branch
connectFailed == << sendError("connect_failed", 0) >>

\* the TLS handshake fails: MumbleTcpClient.connect rejects
TlsError(i) ==
  /\ Quiet
  /\ conns[i].phase = "tls"
  /\ conns' = [conns EXCEPT ![i] = [@ EXCEPT !.phase = "failed", !.sock = "closed"]]
  /\ wire' = <<>>
  /\ Send(connectFailed)
  /\ last' = Op("tlsError", i, "", "", FALSE)
  /\ UNCHANGED <<wsOpen, session, metricsInterval, liveTimers, retired>>
  /\ voiceIdle

\* the events that settle the promise connectMumbleServer awaits
Settling == {"serverSync", "reject", "error", "disconnected"}

\* handshake listeners that stay subscribed after the promise has settled
handshakeListeningMut(c) == c.phase \in {"sync", "resolved", "rejected"}

\* The four handshake listeners and the 15 s timeout are in place: from their
\* creation until the first of them runs, which calls cleanup() (clearTimeout and
\* the four off functions).
handshakeListening(c) == c.phase = "sync"

\* the first settling event: its listener removes all four listeners and the timeout
FirstSettle(evs) ==
  LET idx == {k \in DOMAIN evs : evs[k].e \in Settling}
  IN IF idx = {} THEN "" ELSE evs[Min(idx)].e

connectedMsg(c) == [Msg("connected", c.req, 0) EXCEPT !.id = c.selfUserId]

stateSnapshot(c) == [Msg("stateSnapshot", "", 0) EXCEPT !.channels = c.channels, !.users = c.users]

\* What follows the await in the connect branch once connectMumbleServer resolved:
\* new MumbleSession (its relay and its UDP socket), session = {...}, 'connected',
\* 'stateSnapshot', the forwarders, the metrics interval
Installed(c) ==
  [c EXCEPT !.phase = "done", !.relay = TRUE, !.fwd = TRUE,
            !.udpHost = c.host, !.udpPort = c.port]

\* The events TLS client i emitted reach the handshake listeners (while the connect
\* awaits ServerSync), and through the relay the supervisor's forwarders.
Deliver(i, c, evs, op) ==
  LET settle == IF handshakeListening(conns[i]) THEN FirstSettle(evs) ELSE ""
      phase == IF settle = "serverSync" THEN "resolved"
               ELSE IF settle # "" THEN "rejected" ELSE c.phase
  IN /\ conns' = [conns EXCEPT ![i] = [c EXCEPT !.phase = phase]]
     /\ Send(Forwarded(conns[i], i, evs))
     /\ wire' = <<>>
     /\ last' = Op(op, i, "", settle, FALSE)
     /\ UNCHANGED <<wsOpen, session, metricsInterval, liveTimers, retired>>
     /\ voiceIdle

Connected(i) == conns[i].phase \in {"sync", "done", "failed"}

\* socket.on('data') -> _onData: one whole control message of the chunk. The loop
\* of _onData goes on to the chunk's next message before any continuation runs.
OnMessage(i, m) ==
  /\ \/ Quiet /\ Connected(i) /\ conns[i].sock = "open"
     \/ Pending(i) /\ conns[i].sock # "closed"
  /\ LET r == handleMessage(conns[i], m)
     IN Deliver(i, r.c, r.ev, "onMessage")

\* socket.on('error')
SocketError(i) ==
  /\ Quiet
  /\ Connected(i)
  /\ conns[i].sock = "open"
  /\ Deliver(i, conns[i], << Event("error", 0, 0) >>, "socketError")

\* MumbleTcpClient._onClose
onClose(c) == [c EXCEPT !.keepalive = FALSE, !.closed = TRUE, !.sock = "closed"]

\* socket.once('close')
SocketClose(i) ==
  /\ Quiet
  /\ Connected(i)
  /\ conns[i].sock \in {"open", "closing"}
  /\ Deliver(i, onClose(conns[i]), << Event("disconnected", 0, 0) >>, "socketClose")

\* The continuation of the connect branch after `await connectMumbleServer(...)`:
\* the try block when it resolved, the catch block when it rejected.
Resume(i) ==
  /\ Pending(i)
  /\ LET c == conns[i]
     IN IF c.phase = "resolved"
        THEN /\ conns' = [conns EXCEPT ![i] = Installed(c)]
             /\ session' = i
             /\ metricsInterval' = i
             /\ liveTimers' = liveTimers \cup {i}
             /\ Send(<< connectedMsg(c), stateSnapshot(c) >>)
        ELSE /\ conns' = [conns EXCEPT ![i] = [c EXCEPT !.phase = "failed"]]
             /\ Send(connectFailed)
             /\ UNCHANGED <<session, metricsInterval, liveTimers>>
  /\ wire' = <<>>
  /\ last' = Op("resume", i, "", conns[i].phase, FALSE)
  /\ UNCHANGED <<wsOpen, retired>>
  /\ voiceIdle

\* the 15 s timeout of connectMumbleServer
HandshakeTimeout(i) ==
  /\ Quiet
  /\ handshakeListening(conns[i])
  /\ conns' = [conns EXCEPT ![i] = [@ EXCEPT !.phase = "rejected"]]
  /\ wire' = <<>>
  /\ Send(<<>>)
  /\ last' = Op("timeout", i, "", "timeout", FALSE)
  /\ UNCHANGED <<wsOpen, session, metricsInterval, liveTimers, retired>>
  /\ voiceIdle

\* msg.type === 'disconnect'
Disconnect ==
  /\ Quiet
  /\ wsOpen
  /\ conns' = MarkCancelled(cleanup(conns, session))
  /\ session' = 0
  /\ metricsInterval' = 0
  /\ liveTimers' = clearMetrics
  /\ wire' = <<>>
  /\ Send(<< Msg("disconnected", "client_disconnect", 0) >>)
  /\ last' = Op("disconnect", 0, "", "", FALSE)
  /\ Retire(session)
  /\ UNCHANGED wsOpen
  /\ voiceIdle

\* ws.on('close')
WsClose ==
  /\ Quiet
  /\ wsOpen
  /\ wsOpen' = FALSE
  /\ conns' = MarkCancelled(cleanup(conns, session))
  /\ session' = 0
  /\ metricsInterval' = 0
  /\ liveTimers' = clearMetrics
  /\ wire' = <<>>
  /\ sent' = <<>>
  /\ peer' = peer
  /\ last' = Op("wsClose", 0, "", "", FALSE)
  /\ Retire(session)
  /\ voiceIdle

\* a dispatch without the session check
requireSessionMut(s) == <<>>

\* `if (!session) { sendError(ws, 'not_connected', ...); return }`
requireSession(s) == IF s = 0 THEN << sendError("not_connected", 0) >> ELSE <<>>

\* msg.type === 'joinChannel' / 'textSend': what is written to the Mumble server
PostConnectOp(op, type) ==
  /\ Quiet
  /\ wsOpen
  /\ Send(requireSession(session))
  /\ wire' = IF session = 0 THEN <<>> ELSE sendMessage(conns[session], session, type)
  /\ last' = Op(op, 0, "", "", FALSE)
  /\ UNCHANGED <<wsOpen, session, metricsInterval, liveTimers, conns, retired>>
  /\ voiceIdle

JoinChannel == PostConnectOp("joinChannel", "UserState")

TextSend == PostConnectOp("textSend", "TextMessage")

\* msg.type === 'ping'
Ping ==
  /\ Quiet
  /\ wsOpen
  /\ Send(<< Msg("pong", "", 0) >> \o (IF session # 0 THEN << Msg("metrics", "", 0) >> ELSE <<>>))
  /\ wire' = <<>>
  /\ last' = Op("ping", 0, "", "", FALSE)
  /\ UNCHANGED <<wsOpen, session, metricsInterval, liveTimers, conns, retired>>
  /\ voiceIdle

\* the metrics interval callback
MetricsTick(t) ==
  /\ Quiet
  /\ t \in liveTimers
  /\ Send(IF session = 0 THEN <<>> ELSE << Msg("metrics", "", 0) >>)
  /\ wire' = <<>>
  /\ last' = Op("metricsTick", t, "", "", FALSE)
  /\ UNCHANGED <<wsOpen, session, metricsInterval, liveTimers, conns, retired>>
  /\ voiceIdle

VOICE_UPLINK_END == 3
VOICE_UPLINK_OPUS == 18

\* Inbound WebSocket messages that are neither a voice uplink frame nor JSON with a
\* recognised type. str: delivered as a string (else a Buffer); len: its length;
\* first: its first byte; parsed: what safeJsonParse returns for its text.
BadMessages ==
  {[str |-> s, len |-> 0, first |-> 0, parsed |-> "null"] : s \in BOOLEAN}
  \cup {[str |-> s, len |-> 2, first |-> 120, parsed |-> "null"] : s \in BOOLEAN}
  \cup {[str |-> s, len |-> 2, first |-> 91, parsed |-> "array"] : s \in BOOLEAN}
  \cup {[str |-> s, len |-> 2, first |-> 123, parsed |-> p] : s \in BOOLEAN, p \in {"noType", "unknownType"}}

\* assertClientMessage for these parse results: always null
assertClientMessage(parsed) ==
  IF parsed \in {"null", "array", "noType", "unknownType"} THEN "null" ELSE parsed

\* ws.on('message') up to the bad_request reply. "throw": data.readUInt8(0) on an
\* empty Buffer raises ERR_OUT_OF_RANGE and the async handler rejects.
onBadMessage(data) ==
  IF ~data.str /\ data.len = 0 THEN "throw"
  ELSE IF ~data.str /\ data.first \in {VOICE_UPLINK_OPUS, VOICE_UPLINK_END} THEN "voice"
  ELSE IF assertClientMessage(data.parsed) = "null" THEN "bad_request"
  ELSE "dispatch"

BadMessage(data) ==
  /\ Quiet
  /\ wsOpen
  /\ Send(IF onBadMessage(data) = "bad_request" THEN << sendError("bad_request", 0) >> ELSE <<>>)
  /\ wire' = <<>>
  /\ last' = Op("badMessage", 0, "", IF data.len = 0 THEN "empty" ELSE data.parsed,
                onBadMessage(data) = "throw")
  /\ UNCHANGED <<wsOpen, session, metricsInterval, liveTimers, conns, retired>>
  /\ voiceIdle

-----------------------------------------------------------------------------
(* Supervisor start *)

supInit ==
  /\ wsOpen = TRUE
  /\ session = 0
  /\ metricsInterval = 0
  /\ liveTimers = {}
  /\ conns = [i \in ConnIds |-> NoConn]
  /\ peer = [channels |-> {}, users |-> {}]
  /\ sent = <<>>
  /\ wire = <<>>
  /\ last = NoLast
  /\ retired = {}

supIdle == UNCHANGED <<supVars, moreVars>>

-----------------------------------------------------------------------------
(* Voice paths of one MumbleSession *)

\* sendOpusFrame / sendOpusEnd calls made on the session
MaxCalls == 3
\* clock steps taken
MaxAdvances == 2
\* bursts of other speakers' frames received
MaxBursts == 2
\* frames of other speakers in one burst
BurstLen == 2048

\* encodeLegacyOpusPacketFromClient: if (size > 0x1fff) throw
MaxOpusBytes == 8191
\* _emitVoice: now - prev < 1000
DedupWindowMs == 1000
\* _emitVoice: this._recentVoiceFrames.size > 2048
SweepSize == 2048
\* _emitVoice: now - ts <= 1500
StaleMs == 1500
\* _emitVoice: this._recentVoiceFrames.size > 4096
ClearSize == 4096

\* byte lengths of the opus payload a peer may put in an uplink frame
OpusSizes == {0, 1, MaxOpusBytes, MaxOpusBytes + 1}

\* milliseconds between two events
AdvanceSteps == {1, 999}

\* (userId, target, sequence) of the frame followed individually
VoiceKeys == {<<7, 0, 42>>}

\* stands for the frames of other speakers: each one has a key of its own
Other == <<9, 0, 0>>

NoVoice ==
  [kind |-> "init", key |-> <<0, 0, 0>>, at |-> 0, prev |-> -1,
   emitted |-> FALSE, clearedSince |-> FALSE]

voiceInit ==
  /\ outSequence = 0
  /\ udpReady = FALSE
  /\ calls = 0
  /\ packets = <<>>
  /\ recentVoiceFrames = <<>>
  /\ now = 0
  /\ advances = 0
  /\ bursts = 0
  /\ delivered = [k \in VoiceKeys |-> -1]
  /\ cleared = [k \in VoiceKeys |-> FALSE]
  /\ vlast = NoVoice

-----------------------------------------------------------------------------
(* AES-128 on one block, as node:crypto's 'aes-128-ecb' cipher computes it *)

AES_BLOCK_SIZE == 16
AES_KEY_SIZE_BYTES == 16

\* a ^ b on 4-bit values
NibbleXor ==
  [a \in 0..15 |-> [b \in 0..15 |->
     ((a + b) % 2) + 2 * (((a \div 2) + (b \div 2)) % 2)
       + 4 * (((a \div 4) + (b \div 4)) % 2) + 8 * (((a \div 8) + (b \div 8)) % 2)]]

\* a ^ b on bytes
xor(a, b) == NibbleXor[a \div 16][b \div 16] * 16 + NibbleXor[a % 16][b % 16]

SBox ==
  <<99, 124, 119, 123, 242, 107, 111, 197, 48, 1, 103, 43, 254, 215, 171, 118,
    202, 130, 201, 125, 250, 89, 71, 240, 173, 212, 162, 175, 156, 164, 114, 192,
    183, 253, 147, 38, 54, 63, 247, 204, 52, 165, 229, 241, 113, 216, 49, 21,
    4, 199, 35, 195, 24, 150, 5, 154, 7, 18, 128, 226, 235, 39, 178, 117,
    9, 131, 44, 26, 27, 110, 90, 160, 82, 59, 214, 179, 41, 227, 47, 132,
    83, 209, 0, 237, 32, 252, 177, 91, 106, 203, 190, 57, 74, 76, 88, 207,
    208, 239, 170, 251, 67, 77, 51, 133, 69, 249, 2, 127, 80, 60, 159, 168,
    81, 163, 64, 143, 146, 157, 56, 245, 188, 182, 218, 33, 16, 255, 243, 210,
    205, 12, 19, 236, 95, 151, 68, 23, 196, 167, 126, 61, 100, 93, 25, 115,
    96, 129, 79, 220, 34, 42, 144, 136, 70, 238, 184, 20, 222, 94, 11, 219,
    224, 50, 58, 10, 73, 6, 36, 92, 194, 211, 172, 98, 145, 149, 228, 121,
    231, 200, 55, 109, 141, 213, 78, 169, 108, 86, 244, 234, 101, 122, 174, 8,
    186, 120, 37, 46, 28, 166, 180, 198, 232, 221, 116, 31, 75, 189, 139, 138,
    112, 62, 181, 102, 72, 3, 246, 14, 97, 53, 87, 185, 134, 193, 29, 158,
    225, 248, 152, 17, 105, 217, 142, 148, 155, 30, 135, 233, 206, 85, 40, 223,
    140, 161, 137, 13, 191, 230, 66, 104, 65, 153, 45, 15, 176, 84, 187, 22>>

InvSBox ==
  <<82, 9, 106, 213, 48, 54, 165, 56, 191, 64, 163, 158, 129, 243, 215, 251,
    124, 227, 57, 130, 155, 47, 255, 135, 52, 142, 67, 68, 196, 222, 233, 203,
    84, 123, 148, 50, 166, 194, 35, 61, 238, 76, 149, 11, 66, 250, 195, 78,
    8, 46, 161, 102, 40, 217, 36, 178, 118, 91, 162, 73, 109, 139, 209, 37,
    114, 248, 246, 100, 134, 104, 152, 22, 212, 164, 92, 204, 93, 101, 182, 146,
    108, 112, 72, 80, 253, 237, 185, 218, 94, 21, 70, 87, 167, 141, 157, 132,
    144, 216, 171, 0, 140, 188, 211, 10, 247, 228, 88, 5, 184, 179, 69, 6,
    208, 44, 30, 143, 202, 63, 15, 2, 193, 175, 189, 3, 1, 19, 138, 107,
    58, 145, 17, 65, 79, 103, 220, 234, 151, 242, 207, 206, 240, 180, 230, 115,
    150, 172, 116, 34, 231, 173, 53, 133, 226, 249, 55, 232, 28, 117, 223, 110,
    71, 241, 26, 113, 29, 41, 197, 137, 111, 183, 98, 14, 170, 24, 190, 27,
    252, 86, 62, 75, 198, 210, 121, 32, 154, 219, 192, 254, 120, 205, 90, 244,
    31, 221, 168, 51, 136, 7, 199, 49, 177, 18, 16, 89, 39, 128, 236, 95,
    96, 81, 127, 169, 25, 181, 74, 13, 45, 229, 122, 159, 147, 201, 156, 239,
    160, 224, 59, 77, 174, 42, 245, 176, 200, 235, 187, 60, 131, 83, 153, 97,
    23, 43, 4, 126, 186, 119, 214, 38, 225, 105, 20, 99, 85, 33, 12, 125>>

\* multiplication by x in GF(2^8) modulo x^8 + x^4 + x^3 + x + 1
xtime(a) == IF a >= 128 THEN xor((2 * a) % 256, 27) ELSE 2 * a

RECURSIVE gmul(_, _)
gmul(a, b) ==
  IF b = 0 THEN 0
  ELSE xor(IF b % 2 = 1 THEN a ELSE 0, gmul(xtime(a), b \div 2))

\* multiplication by the coefficients of MixColumns and of its inverse in GF(2^8)
Mul2 == [x \in 0..255 |-> gmul(x, 2)]
Mul3 == [x \in 0..255 |-> gmul(x, 3)]
Mul9 == [x \in 0..255 |-> gmul(x, 9)]
Mul11 == [x \in 0..255 |-> gmul(x, 11)]
Mul13 == [x \in 0..255 |-> gmul(x, 13)]
Mul14 == [x \in 0..255 |-> gmul(x, 14)]

Rcon == <<1, 2, 4, 8, 16, 32, 64, 128, 27, 54>>

\* the 16-byte block with the bytes f[0] .. f[15]
Block16(f) ==
  <<f[0], f[1], f[2], f[3], f[4], f[5], f[6], f[7],
    f[8], f[9], f[10], f[11], f[12], f[13], f[14], f[15]>>

\* xorInto(dst, a, b): the block a ^ b
xorInto(a, b) == Block16([i \in 0..15 |-> xor(a[i + 1], b[i + 1])])

\* round key r from round key r - 1 (1 <= r <= 10)
nextRoundKey(k, r) ==
  LET t0 == xor(xor(SBox[k[14] + 1], Rcon[r]), k[1])
      t1 == xor(SBox[k[15] + 1], k[2])
      t2 == xor(SBox[k[16] + 1], k[3])
      t3 == xor(SBox[k[13] + 1], k[4])
      t4 == xor(t0, k[5])
      t5 == xor(t1, k[6])
      t6 == xor(t2, k[7])
      t7 == xor(t3, k[8])
      t8 == xor(t4, k[9])
      t9 == xor(t5, k[10])
      t10 == xor(t6, k[11])
      t11 == xor(t7, k[12])
  IN <<t0, t1, t2, t3, t4, t5, t6, t7, t8, t9, t10, t11,
       xor(t8, k[13]), xor(t9, k[14]), xor(t10, k[15]), xor(t11, k[16])>>

\* createCipheriv('aes-128-ecb', key, null): the cipher is its round keys 0 .. 10
RECURSIVE expandKey(_, _)
expandKey(keys, r) ==
  IF r > 10 THEN keys
  ELSE LET k == nextRoundKey(keys[r], r)
       IN IF k[1] >= 0 THEN expandKey(Append(keys, k), r + 1) ELSE keys

createCipheriv(key) == expandKey(<<key>>, 1)

\* SubBytes then ShiftRows, and their inverses
subShift(s) == Block16([i \in 0..15 |-> SBox[s[((i + 4 * (i % 4)) % 16) + 1] + 1]])

invShiftSub(s) == Block16([i \in 0..15 |-> InvSBox[s[((i + 12 * (i % 4)) % 16) + 1] + 1]])

mixColumns(s) ==
  Block16([i \in 0..15 |->
    LET c == 4 * (i \div 4)
        r == i % 4
    IN xor(xor(Mul2[s[c + r + 1]], Mul3[s[c + ((r + 1) % 4) + 1]]),
           xor(s[c + ((r + 2) % 4) + 1], s[c + ((r + 3) % 4) + 1]))])

invMixColumns(s) ==
  Block16([i \in 0..15 |->
    LET c == 4 * (i \div 4)
        r == i % 4
    IN xor(xor(Mul14[s[c + r + 1]], Mul11[s[c + ((r + 1) % 4) + 1]]),
           xor(Mul13[s[c + ((r + 2) % 4) + 1]], Mul9[s[c + ((r + 3) % 4) + 1]]))])

\* one round of encryption and one of decryption
encRound(s, k) == xorInto(mixColumns(subShift(s)), k)

decRound(s, k) == invMixColumns(xorInto(invShiftSub(s), k))

\* cipher.update(block) of an encrypting cipher
aesEcbEncryptBlock(cipher, block) ==
  LET r0 == xorInto(block, cipher[1])
      r1 == encRound(r0, cipher[2])
      r2 == encRound(r1, cipher[3])
      r3 == encRound(r2, cipher[4])
      r4 == encRound(r3, cipher[5])
      r5 == encRound(r4, cipher[6])
      r6 == encRound(r5, cipher[7])
      r7 == encRound(r6, cipher[8])
      r8 == encRound(r7, cipher[9])
      r9 == encRound(r8, cipher[10])
  IN IF r0[1] >= 0 /\ r1[1] >= 0 /\ r2[1] >= 0 /\ r3[1] >= 0 /\ r4[1] >= 0 /\ r5[1] >= 0
          /\ r6[1] >= 0 /\ r7[1] >= 0 /\ r8[1] >= 0 /\ r9[1] >= 0
     THEN xorInto(subShift(r9), cipher[11])
     ELSE r0

\* decipher.update(block) of a decrypting cipher with the same key
aesEcbDecryptBlock(cipher, block) ==
  LET r0 == xorInto(block, cipher[11])
      r1 == decRound(r0, cipher[10])
      r2 == decRound(r1, cipher[9])
      r3 == decRound(r2, cipher[8])
      r4 == decRound(r3, cipher[7])
      r5 == decRound(r4, cipher[6])
      r6 == decRound(r5, cipher[5])
      r7 == decRound(r6, cipher[4])
      r8 == decRound(r7, cipher[3])
      r9 == decRound(r8, cipher[2])
  IN IF r0[1] >= 0 /\ r1[1] >= 0 /\ r2[1] >= 0 /\ r3[1] >= 0 /\ r4[1] >= 0 /\ r5[1] >= 0
          /\ r6[1] >= 0 /\ r7[1] >= 0 /\ r8[1] >= 0 /\ r9[1] >= 0
     THEN xorInto(invShiftSub(r9), cipher[1])
     ELSE r0

-----------------------------------------------------------------------------
(* OCB2 (crypt-state-ocb2) *)

zeroBlock == [i \in 1..AES_BLOCK_SIZE |-> 0]

\* GF(2^128) doubling of a block, big-endian bit order
s2(block) ==
  LET shifted == Block16([i \in 0..15 |->
                   ((2 * block[i + 1]) % 256) + (IF i < 15 THEN block[i + 2] \div 128 ELSE 0)])
  IN IF block[1] >= 128 THEN [shifted EXCEPT ![16] = xor(@, 135)] ELSE shifted

\* GF(2^128) multiplication by 3
s3(block) == xorInto(block, s2(block))

\* zeroBlock() with the bit length of the last block written big-endian into
\* bytes 8..15
lengthBlock(remaining) == [zeroBlock EXCEPT ![16] = (remaining * 8) % 256, ![15] = (remaining * 8) \div 256]

\* the first block of plain has its first 15 bytes zero
firstFifteenZero(plain) == \A i \in 1..(AES_BLOCK_SIZE - 1) : plain[i] = 0

\* the result of ocbEncrypt and of ocbDecrypt where a block could not be computed
ocbNone == [encrypted |-> <<>>, plain |-> <<>>, tag |-> zeroBlock, success |-> FALSE]

\* the loop and the final block of ocbEncrypt: plain is what remains to be
\* encrypted, out what was encrypted so far
RECURSIVE ocbEncryptFrom(_, _, _, _, _, _, _)

\* the end of one turn of the loop: outBlock is copied into encrypted
ocbEncryptNext(cipher, rest, d, sum, out, outBlock, success, modifyPlainOnXexStarAttack) ==
  IF d[1] >= 0 /\ sum[1] >= 0 /\ outBlock[1] >= 0
  THEN ocbEncryptFrom(cipher, rest, d, sum, out \o outBlock, success,
                      modifyPlainOnXexStarAttack)
  ELSE ocbNone

\* one turn of the loop, d being delta after s2(delta)
ocbEncryptBlock(cipher, plain, d, checksum, out, success, modifyPlainOnXexStarAttack) ==
  LET remaining == Len(plain)
      attack == remaining - AES_BLOCK_SIZE <= AES_BLOCK_SIZE /\ firstFifteenZero(plain)
      flipABit == attack /\ modifyPlainOnXexStarAttack
      plainBlock == SubSeq(plain, 1, AES_BLOCK_SIZE)
      tmp == xorInto(d, plainBlock)
      xored == xorInto(checksum, plainBlock)
  IN ocbEncryptNext(cipher, SubSeq(plain, AES_BLOCK_SIZE + 1, remaining), d,
                    IF flipABit THEN [xored EXCEPT ![1] = xor(@, 1)] ELSE xored,
                    out,
                    xorInto(d, aesEcbEncryptBlock(cipher,
                                 IF flipABit THEN [tmp EXCEPT ![1] = xor(@, 1)] ELSE tmp)),
                    success /\ (~attack \/ modifyPlainOnXexStarAttack),
                    modifyPlainOnXexStarAttack)

\* the tag, once the final block is encrypted: full is the final block padded
ocbEncryptTag(cipher, d, checksum, out, success, remaining, pad, full) ==
  IF pad[1] >= 0 /\ full[1] >= 0
  THEN [encrypted |-> out \o SubSeq(xorInto(pad, full), 1, remaining),
        tag |-> aesEcbEncryptBlock(cipher, xorInto(s3(d), xorInto(checksum, full))),
        success |-> success]
  ELSE ocbNone

\* the final block, pad being the enciphered length block
ocbEncryptFinal(cipher, plain, d, checksum, out, success, pad) ==
  ocbEncryptTag(cipher, d, checksum, out, success, Len(plain), pad,
                [i \in 1..AES_BLOCK_SIZE |-> IF i <= Len(plain) THEN plain[i] ELSE pad[i]])

ocbEncryptLast(cipher, plain, d, checksum, out, success) ==
  IF d[1] >= 0
  THEN ocbEncryptFinal(cipher, plain, d, checksum, out, success,
                       aesEcbEncryptBlock(cipher, xorInto(lengthBlock(Len(plain)), d)))
  ELSE ocbNone

ocbEncryptFrom(cipher, plain, delta, checksum, out, success, modifyPlainOnXexStarAttack) ==
  IF Len(plain) > AES_BLOCK_SIZE
  THEN ocbEncryptBlock(cipher, plain, s2(delta), checksum, out, success,
                       modifyPlainOnXexStarAttack)
  ELSE ocbEncryptLast(cipher, plain, s2(delta), checksum, out, success)

\* ocbEncrypt once the cipher is created
ocbEncryptWith(cipher, nonce, plain, modifyPlainOnXexStarAttack) ==
  IF cipher[11][1] >= 0
  THEN ocbEncryptFrom(cipher, plain, aesEcbEncryptBlock(cipher, nonce), zeroBlock, <<>>,
                      TRUE, modifyPlainOnXexStarAttack)
  ELSE ocbNone

ocbEncrypt(key, nonce, plain, modifyPlainOnXexStarAttack) ==
  ocbEncryptWith(createCipheriv(key), nonce, plain, modifyPlainOnXexStarAttack)

\* the loop and the final block of ocbDecrypt: encrypted is what remains to be
\* decrypted, out what was decrypted so far
RECURSIVE ocbDecryptFrom(_, _, _, _, _)

\* the end of one turn of the loop: outBlock is copied into plain
ocbDecryptNext(cipher, rest, d, checksum, out, outBlock) ==
  IF d[1] >= 0 /\ outBlock[1] >= 0
  THEN ocbDecryptFrom(cipher, rest, d, xorInto(checksum, outBlock), out \o outBlock)
  ELSE ocbNone

\* the tag, once the final block is decrypted: full is the final block padded
ocbDecryptTag(cipher, d, checksum, out, remaining, pad, full) ==
  IF pad[1] >= 0 /\ full[1] >= 0
  THEN [plain |-> out \o SubSeq(full, 1, remaining),
        tag |-> aesEcbEncryptBlock(cipher, xorInto(s3(d), xorInto(checksum, full))),
        success |-> SubSeq(full, 1, AES_BLOCK_SIZE - 1) # SubSeq(d, 1, AES_BLOCK_SIZE - 1)]
  ELSE ocbNone

\* the final block, pad being the enciphered length block
ocbDecryptFinal(cipher, encrypted, d, checksum, out, pad) ==
  ocbDecryptTag(cipher, d, checksum, out, Len(encrypted), pad,
                xorInto([i \in 1..AES_BLOCK_SIZE |->
                           IF i <= Len(encrypted) THEN encrypted[i] ELSE 0], pad))

ocbDecryptLast(cipher, encrypted, d, checksum, out) ==
  IF d[1] >= 0
  THEN ocbDecryptFinal(cipher, encrypted, d, checksum, out,
                       aesEcbEncryptBlock(cipher, xorInto(lengthBlock(Len(encrypted)), d)))
  ELSE ocbNone

ocbDecryptFrom(cipher, encrypted, delta, checksum, out) ==
  IF Len(encrypted) > AES_BLOCK_SIZE
  THEN ocbDecryptNext(cipher, SubSeq(encrypted, AES_BLOCK_SIZE + 1, Len(encrypted)),
                      s2(delta), checksum, out,
                      xorInto(s2(delta),
                              aesEcbDecryptBlock(cipher,
                                xorInto(s2(delta), SubSeq(encrypted, 1, AES_BLOCK_SIZE)))))
  ELSE ocbDecryptLast(cipher, encrypted, s2(delta), checksum, out)

\* ocbDecrypt once the decipher is created
ocbDecryptWith(cipher, nonce, encrypted) ==
  IF cipher[11][1] >= 0
  THEN ocbDecryptFrom(cipher, encrypted, aesEcbEncryptBlock(cipher, nonce), zeroBlock, <<>>)
  ELSE ocbNone

ocbDecrypt(key, nonce, encrypted) == ocbDecryptWith(createCipheriv(key), nonce, encrypted)

-----------------------------------------------------------------------------
(* CryptStateOCB2 *)

\* a new CryptStateOCB2
NewCryptState ==
  [init |-> FALSE, rawKey |-> zeroBlock, encryptIv |-> zeroBlock, decryptIv |-> zeroBlock,
   decryptHistory |-> [b \in 0..255 |-> 0],
   statsLocal |-> [good |-> 0, late |-> 0, lost |-> 0, resync |-> 0]]

setKey(cs, key, clientNonce, serverNonce) ==
  IF Len(key) # AES_KEY_SIZE_BYTES \/ Len(clientNonce) # AES_BLOCK_SIZE
       \/ Len(serverNonce) # AES_BLOCK_SIZE
  THEN cs
  ELSE [cs EXCEPT !.rawKey = key, !.encryptIv = clientNonce, !.decryptIv = serverNonce,
                  !.decryptHistory = [b \in 0..255 |-> 0], !.init = TRUE]

\* add one to the little-endian number held in bytes i .. 16 of iv
RECURSIVE increaseFrom(_, _)
increaseFrom(iv, i) ==
  IF i > AES_BLOCK_SIZE THEN iv
  ELSE LET next == (iv[i] + 1) % 256
       IN IF next # 0 THEN [iv EXCEPT ![i] = next]
          ELSE increaseFrom([iv EXCEPT ![i] = 0], i + 1)

\* subtract one from the little-endian number held in bytes i .. 16 of iv
RECURSIVE decreaseFrom(_, _)
decreaseFrom(iv, i) ==
  IF i > AES_BLOCK_SIZE THEN iv
  ELSE IF iv[i] # 0 THEN [iv EXCEPT ![i] = @ - 1]
       ELSE decreaseFrom([iv EXCEPT ![i] = 255], i + 1)

\* the end of encrypt: e is what ocbEncrypt returned for the IV iv
encryptOut(cs, iv, e) ==
  IF ~e.success THEN [cs |-> [cs EXCEPT !.encryptIv = iv], ok |-> FALSE, out |-> <<>>]
  ELSE [cs |-> [cs EXCEPT !.encryptIv = iv], ok |-> TRUE,
        out |-> <<iv[1], e.tag[1], e.tag[2], e.tag[3]>> \o e.encrypted]

\* encrypt once the IV is increased to iv
encryptWith(cs, iv, plain) == encryptOut(cs, iv, ocbEncrypt(cs.rawKey, iv, plain, TRUE))

\* CryptStateOCB2.encrypt: out is the datagram, ok is FALSE where null is returned
encrypt(cs, plain) ==
  IF ~cs.init THEN [cs |-> cs, ok |-> FALSE, out |-> <<>>]
  ELSE encryptWith(cs, increaseFrom(cs.encryptIv, 1), plain)

\* the IV decrypt tries for a datagram whose first byte is ivByte: iv is the
\* IV, late and lost the counts, restore whether the old IV is put back,
\* checked whether decryptHistory is consulted, reject whether null is returned
\* before anything is decrypted
decryptIvFor(decryptIv, ivByte) ==
  LET mine == decryptIv[1]
      raw == ivByte - mine
      diff == IF raw > 128 THEN raw - 256 ELSE IF raw < -128 THEN raw + 256 ELSE raw
      none == [iv |-> decryptIv, late |-> 0, lost |-> 0, restore |-> FALSE,
               checked |-> FALSE, reject |-> TRUE]
  IN IF (mine + 1) % 256 = ivByte
     THEN IF ivByte > mine
          THEN [none EXCEPT !.iv = [decryptIv EXCEPT ![1] = ivByte], !.reject = FALSE]
          ELSE IF ivByte < mine
          THEN [none EXCEPT !.iv = increaseFrom([decryptIv EXCEPT ![1] = ivByte], 2),
                            !.reject = FALSE]
          ELSE none
     ELSE IF ivByte < mine /\ diff > -30 /\ diff < 0
          THEN [iv |-> [decryptIv EXCEPT ![1] = ivByte], late |-> 1, lost |-> -1,
                restore |-> TRUE, checked |-> TRUE, reject |-> FALSE]
          ELSE IF ivByte > mine /\ diff > -30 /\ diff < 0
          THEN [iv |-> decreaseFrom([decryptIv EXCEPT ![1] = ivByte], 2), late |-> 1,
                lost |-> -1, restore |-> TRUE, checked |-> TRUE, reject |-> FALSE]
          ELSE IF ivByte > mine /\ diff > 0
          THEN [iv |-> [decryptIv EXCEPT ![1] = ivByte], late |-> 0,
                lost |-> ivByte - mine - 1, restore |-> FALSE, checked |-> TRUE,
                reject |-> FALSE]
          ELSE IF ivByte < mine /\ diff > 0
          THEN [iv |-> increaseFrom([decryptIv EXCEPT ![1] = ivByte], 2), late |-> 0,
                lost |-> 256 - mine + ivByte - 1, restore |-> FALSE, checked |-> TRUE,
                reject |-> FALSE]
          ELSE none

\* the replay test without the history
seenBeforeMut(history, iv) == FALSE

\* decryptHistory already holds the second byte of iv for its first byte
seenBefore(history, iv) == history[iv[1]] = iv[2]

Abs(n) == IF n < 0 THEN -n ELSE n

\* the counter update at the end of decrypt, for late and for lost
countStat(total, n) ==
  IF n > 0 THEN total + n ELSE IF total > Abs(n) THEN total - Abs(n) ELSE total

\* decryptIv after a datagram was accepted under the IV c.iv, with `restore`
\* ignored
acceptedIvMut(c, saveIv) == c.iv

\* decryptIv after a datagram was accepted under the IV c.iv:
\* if (restore) this._decryptIv = saveIv
acceptedIv(c, saveIv) == IF c.restore THEN saveIv ELSE c.iv

\* decrypt's state once the IV to try is written into this._decryptIv
tryIv(cs, c) == [cs EXCEPT !.decryptIv = c.iv]

\* a decrypt that leaves the IV it tried in place where it gives up
restoreIvMut(cs, saveIv) == cs

\* this._decryptIv = saveIv
restoreIv(cs, saveIv) == [cs EXCEPT !.decryptIv = saveIv]

\* the end of decrypt: c is the IV tried and d what ocbDecrypt returned for it
decryptOut(cs, source, c, d) ==
  IF ~d.success \/ d.tag[1] # source[2] \/ d.tag[2] # source[3] \/ d.tag[3] # source[4]
  THEN [cs |-> restoreIv(tryIv(cs, c), cs.decryptIv), ok |-> FALSE, plain |-> <<>>]
  ELSE [cs |-> [cs EXCEPT
                  !.decryptHistory[c.iv[1]] = c.iv[2],
                  !.decryptIv = acceptedIv(c, cs.decryptIv),
                  !.statsLocal.good = @ + 1,
                  !.statsLocal.late = countStat(@, c.late),
                  !.statsLocal.lost = countStat(@, c.lost)],
        ok |-> TRUE, plain |-> d.plain]

\* decrypt once the IV to try is chosen
decryptWith(cs, source, c) ==
  IF c.reject THEN [cs |-> cs, ok |-> FALSE, plain |-> <<>>]
  ELSE IF c.checked /\ seenBefore(cs.decryptHistory, c.iv)
  THEN [cs |-> restoreIv(tryIv(cs, c), cs.decryptIv), ok |-> FALSE, plain |-> <<>>]
  ELSE decryptOut(cs, source, c, ocbDecrypt(cs.rawKey, c.iv, SubSeq(source, 5, Len(source))))

\* CryptStateOCB2.decrypt: ok is FALSE where null is returned
decrypt(cs, source) ==
  IF ~cs.init \/ Len(source) < 4 THEN [cs |-> cs, ok |-> FALSE, plain |-> <<>>]
  ELSE decryptWith(cs, source, decryptIvFor(cs.decryptIv, source[1]))

-----------------------------------------------------------------------------
(* Mumble varints (voice-legacy) *)

\* a | b and a & b on bytes
RECURSIVE bitOr(_, _)
bitOr(a, b) ==
  IF a = 0 THEN b
  ELSE IF b = 0 THEN a
  ELSE (IF a % 2 = 1 \/ b % 2 = 1 THEN 1 ELSE 0) + 2 * bitOr(a \div 2, b \div 2)

RECURSIVE bitAnd(_, _)
bitAnd(a, b) ==
  IF a = 0 \/ b = 0 THEN 0
  ELSE (IF a % 2 = 1 /\ b % 2 = 1 THEN 1 ELSE 0) + 2 * bitAnd(a \div 2, b \div 2)

\* A bigint below 2^64 is the tuple of its 8 bytes, the most significant first.
BigInt(n) ==
  <<0, 0, 0, 0, (n \div 16777216) % 256, (n \div 65536) % 256, (n \div 256) % 256, n % 256>>

\* i >> (8 * k)
shiftRight(i, k) == [j \in 1..8 |-> IF j <= k THEN 0 ELSE i[j - k]]

\* i | j on bigints
bigOr(i, j) == [k \in 1..8 |-> bitOr(i[k], j[k])]

\* i < j on bigints
lessThan(i, j) ==
  \E k \in 1..8 : i[k] < j[k] /\ \A m \in 1..(k - 1) : i[m] = j[m]

\* the byte Buffer.from([Number(i)]) holds
lowByte(i) == i[8]

\* writeMumbleVarint with `<=` for `<` in the test of the two-byte form
writeMumbleVarintMut(i) ==
  IF lessThan(i, BigInt(128)) THEN <<lowByte(i)>>
  ELSE IF ~lessThan(BigInt(16384), i)
  THEN <<lowByte(bigOr(shiftRight(i, 1), BigInt(128))), lowByte(i)>>
  ELSE IF lessThan(i, BigInt(2097152))
  THEN <<lowByte(bigOr(shiftRight(i, 2), BigInt(192))), lowByte(shiftRight(i, 1)),
         lowByte(i)>>
  ELSE IF lessThan(i, BigInt(268435456))
  THEN <<lowByte(bigOr(shiftRight(i, 3), BigInt(224))), lowByte(shiftRight(i, 2)),
         lowByte(shiftRight(i, 1)), lowByte(i)>>
  ELSE IF lessThan(i, <<0, 0, 0, 1, 0, 0, 0, 0>>)
  THEN <<240, lowByte(shiftRight(i, 3)), lowByte(shiftRight(i, 2)),
         lowByte(shiftRight(i, 1)), lowByte(i)>>
  ELSE <<244, lowByte(shiftRight(i, 7)), lowByte(shiftRight(i, 6)),
         lowByte(shiftRight(i, 5)), lowByte(shiftRight(i, 4)), lowByte(shiftRight(i, 3)),
         lowByte(shiftRight(i, 2)), lowByte(shiftRight(i, 1)), lowByte(i)>>

\* writeMumbleVarint for a value that is not negative
writeMumbleVarint(i) ==
  IF lessThan(i, BigInt(128)) THEN <<lowByte(i)>>
  ELSE IF lessThan(i, BigInt(16384))
  THEN <<lowByte(bigOr(shiftRight(i, 1), BigInt(128))), lowByte(i)>>
  ELSE IF lessThan(i, BigInt(2097152))
  THEN <<lowByte(bigOr(shiftRight(i, 2), BigInt(192))), lowByte(shiftRight(i, 1)),
         lowByte(i)>>
  ELSE IF lessThan(i, BigInt(268435456))
  THEN <<lowByte(bigOr(shiftRight(i, 3), BigInt(224))), lowByte(shiftRight(i, 2)),
         lowByte(shiftRight(i, 1)), lowByte(i)>>
  ELSE IF lessThan(i, <<0, 0, 0, 1, 0, 0, 0, 0>>)
  THEN <<240, lowByte(shiftRight(i, 3)), lowByte(shiftRight(i, 2)),
         lowByte(shiftRight(i, 1)), lowByte(i)>>
  ELSE <<244, lowByte(shiftRight(i, 7)), lowByte(shiftRight(i, 6)),
         lowByte(shiftRight(i, 5)), lowByte(shiftRight(i, 4)), lowByte(shiftRight(i, 3)),
         lowByte(shiftRight(i, 2)), lowByte(shiftRight(i, 1)), lowByte(i)>>

\* buf.readUInt8(offset)
readUInt8(buf, offset) == buf[offset + 1]

\* requireBytes throws
eof(buf, offset, n) == offset + n > Len(buf)

Threw == [threw |-> TRUE, value |-> BigInt(0), inverted |-> FALSE, offset |-> 0]

\* a value read at no cost of further bytes than those up to offset
readResult(value, offset) ==
  [threw |-> FALSE, value |-> value, inverted |-> FALSE, offset |-> offset]

\* readMumbleVarint: threw where it throws; inverted where the value is ~value
RECURSIVE readMumbleVarint(_, _)
readMumbleVarint(buf, offset) ==
  IF eof(buf, offset, 1) THEN Threw
  ELSE LET v == readUInt8(buf, offset)
           o == offset + 1
       IN IF bitAnd(v, 128) = 0 THEN readResult(BigInt(bitAnd(v, 127)), o)
          ELSE IF bitAnd(v, 192) = 128
          THEN IF eof(buf, o, 1) THEN Threw
               ELSE readResult(BigInt(bitOr(bitAnd(v, 63) * 256, readUInt8(buf, o))), o + 1)
          ELSE IF bitAnd(v, 240) = 240
          THEN IF bitAnd(v, 252) = 240
               THEN IF eof(buf, o, 4) THEN Threw
                    ELSE readResult(<<0, 0, 0, 0, readUInt8(buf, o), readUInt8(buf, o + 1),
                                      readUInt8(buf, o + 2), readUInt8(buf, o + 3)>>, o + 4)
               ELSE IF bitAnd(v, 252) = 244
               THEN IF eof(buf, o, 8) THEN Threw
                    ELSE readResult([k \in 1..8 |-> readUInt8(buf, o + k - 1)], o + 8)
               ELSE IF bitAnd(v, 252) = 248
               THEN LET inner == readMumbleVarint(buf, o)
                    IN [inner EXCEPT !.inverted = ~@]
               ELSE [readResult(BigInt(bitAnd(v, 3)), o) EXCEPT !.inverted = TRUE]
          ELSE IF bitAnd(v, 240) = 224
          THEN IF eof(buf, o, 3) THEN Threw
               ELSE readResult(<<0, 0, 0, 0, bitAnd(v, 15), readUInt8(buf, o),
                                 readUInt8(buf, o + 1), readUInt8(buf, o + 2)>>, o + 3)
          ELSE IF eof(buf, o, 2) THEN Threw
               ELSE readResult(<<0, 0, 0, 0, 0, bitAnd(v, 31), readUInt8(buf, o),
                                 readUInt8(buf, o + 1)>>, o + 2)

-----------------------------------------------------------------------------
(* Legacy voice packets (voice-legacy) *)

\* encodeLegacyOpusPacketFromClient as bytes, for a payload of at most 0x1fff
\* bytes: header, sequence, size term, payload
encodeLegacyOpusPacket(target, sequence, opusData, isLastFrame) ==
  LET header == bitOr(bitAnd(4, 7) * 32, bitAnd(target, 31))
      size == Len(opusData)
      sizeTerm == IF isLastFrame THEN BigInt(bitOr(size, 8192)) ELSE BigInt(size)
  IN <<header>> \o writeMumbleVarint(sequence) \o writeMumbleVarint(sizeTerm) \o opusData

\* Number(value) & mask for a 13- or 14-bit mask, value below 2^53 or the
\* complement of such a value
numberAnd(r, mask) ==
  LET low == (r.value[7] % 64) * 256 + r.value[8]
  IN bitAnd(IF r.inverted THEN 16383 - low ELSE low, mask)

NoPacket ==
  [kind |-> "null", target |-> 0, sessionId |-> Threw, sequence |-> Threw,
   isLastFrame |-> FALSE, opusData |-> <<>>, timestamp |-> Threw]

\* decodeLegacyVoicePacketFromServer: kind "null" where it returns null, "throw"
\* where a varint read throws
decodeLegacyVoicePacketFromServer(buf) ==
  IF Len(buf) = 0 THEN NoPacket
  ELSE LET header == readUInt8(buf, 0)
           type == header \div 32
           target == bitAnd(header, 31)
       IN IF type = 1
          THEN LET ts == readMumbleVarint(buf, 1)
               IN IF ts.threw THEN [NoPacket EXCEPT !.kind = "throw"]
                  ELSE [NoPacket EXCEPT !.kind = "ping", !.timestamp = ts]
          ELSE IF type # 4 THEN NoPacket
          ELSE LET sess == readMumbleVarint(buf, 1)
                   seq == readMumbleVarint(buf, sess.offset)
                   sizeTerm == readMumbleVarint(buf, seq.offset)
                   size == numberAnd(sizeTerm, 8191)
               IN IF sess.threw \/ seq.threw \/ sizeTerm.threw
                  THEN [NoPacket EXCEPT !.kind = "throw"]
                  ELSE IF sizeTerm.offset + size > Len(buf) THEN NoPacket
                  ELSE [kind |-> "opus", target |-> target, sessionId |-> sess,
                        sequence |-> seq, isLastFrame |-> numberAnd(sizeTerm, 8192) # 0,
                        opusData |-> SubSeq(buf, sizeTerm.offset + 1, sizeTerm.offset + size),
                        timestamp |-> Threw]

-----------------------------------------------------------------------------
(* The uplink pacer of one session *)

\* uplink messages (opus or end) that arrive one by one
MaxUplink == 3
\* bursts of BurstFrames opus frames that arrive within one pacer interval
MaxUplinkBursts == 1
\* opus frames of one burst
BurstFrames == 30

\* VOICE_UPLINK_PACING_INTERVAL_MS
VOICE_UPLINK_PACING_INTERVAL_MS == 20
\* VOICE_UPLINK_PACING_MAX_QUEUE_FRAMES
VOICE_UPLINK_PACING_MAX_QUEUE_FRAMES == 200
\* VOICE_UPLINK_PACING_IDLE_TIMEOUT_MS
VOICE_UPLINK_PACING_IDLE_TIMEOUT_MS == 250

\* queue, timer, droppedFramesTotal: the fields of session.uplinkPacer.
\* enqueuedAt: lastEnqueueAtMs > 0; elapsed: Date.now() - lastEnqueueAtMs, counted
\* up to the first value above the idle timeout. live: session === sessionRef.
\* enqueued, sentFrames, sentEnds: opus frames pushed on the queue, sendOpusFrame
\* and sendOpusEnd calls made. congested: the TLS send buffer is held full.
\* arrived, bursts: uplink messages and bursts received. burstCongested,
\* sentAtBurst, droppedAtBurst, sinceBurst: a burst arrived while congested, the
\* packets sent and the drops counted before it, the uplink messages after it.
\* sentAtEnd: the packets sent when the session stopped being the current one.
\* staleTicks: ticks that found it was not.
NewPacer ==
  [queue |-> <<>>, timer |-> FALSE, enqueuedAt |-> FALSE, elapsed |-> 0,
   droppedFramesTotal |-> 0, live |-> TRUE,
   enqueued |-> 0, sentFrames |-> 0, sentEnds |-> 0, congested |-> FALSE,
   arrived |-> 0, bursts |-> 0, burstCongested |-> FALSE,
   sentAtBurst |-> 0, droppedAtBurst |-> 0, sinceBurst |-> 0,
   sentAtEnd |-> 0, staleTicks |-> 0]

pacerInit == pacer = NewPacer

\* ws.bufferedAmount above which a downlink voice frame is dropped
DOWNLINK_DROP_BYTES == 2000000

\* voiceOpus events handled by the forwarder
MaxDownlink == 3

\* values ws.bufferedAmount may have when a handler looks at it
BufferedAmounts == {0, DOWNLINK_DROP_BYTES, DOWNLINK_DROP_BYTES + 1}

NoDown == [kind |-> "init", open |-> TRUE, buffered |-> 0, sent |-> FALSE,
           frames |-> 0, dropped |-> 0]

\* open: ws.readyState === ws.OPEN. bufferedAmount: ws.bufferedAmount.
\* voiceDownlinkFrames, voiceDownlinkDroppedFrames: session.metrics. events: the
\* voiceOpus events handled. last: the handler that ran last, the socket as it
\* found it, whether it called ws.send, and the counters before it ran.
downInit ==
  down = [open |-> TRUE, bufferedAmount |-> 0,
          voiceDownlinkFrames |-> 0, voiceDownlinkDroppedFrames |-> 0,
          events |-> 0, last |-> NoDown]

\* UDP datagrams and CryptSetup messages one run receives
MaxDatagrams == 2
MaxCryptSetups == 3

\* stage: "handshake" until connectMumbleServer constructs the MumbleSession,
\* "session" until MumbleSession.close, then "closed". cryptSetup: whether the
\* TCP client holds a full crypt triple. init: CryptStateOCB2._init of the UDP
\* client. udpReady: MumbleUdpVoiceClient._udpReady. timer: the fallback timeout
\* is pending. pings: UDPTunnel-wrapped pings written to TLS. resync:
\* statsLocal.resync. datagrams, setups: messages received so far.
fallbackInit ==
  fallback = [stage |-> "handshake", cryptSetup |-> FALSE, init |-> FALSE,
              udpReady |-> FALSE, timer |-> FALSE, pings |-> 0, resync |-> 0,
              datagrams |-> 0, setups |-> 0]

\* datagrams that reach the network, runs of lost datagrams, and datagrams
\* handed to decrypt in one run
MaxPackets == 3
MaxLossRuns == 1
MaxTries == 4
\* damaged datagrams handed to decrypt in one run
MaxForgeries == 1

\* how many datagrams in a row one run of losses takes
LossRuns == {1, 127}

CryptKey == <<0, 1, 2, 3, 4, 5, 6, 7, 8, 9, 10, 11, 12, 13, 14, 15>>

\* the server nonces of CryptSetup: the first two bytes, then fixed bytes
nonce(b0, b1) == <<b0, b1, 255, 3, 4, 5, 6, 7, 8, 9, 10, 11, 12, 13, 14, 15>>

ServerNonces == {nonce(254, 0), nonce(254, 255), nonce(254, 7), nonce(5, 7)}

NoTry ==
  [kind |-> "none", idx |-> 0, ok |-> FALSE, again |-> FALSE, plain |-> <<>>,
   source |-> <<>>, before |-> NewCryptState]

\* tx: the sender's state. rx: the receiver's. out: the datagrams that reached
\* the network, each with the IV it was encrypted under and its number among all
\* datagrams the sender encrypted. encrypts: that count. runs, tries: loss runs
\* and decrypt calls so far. accepts: how often decrypt accepted each datagram.
\* orderly: every datagram so far was handed to decrypt once, in the order sent,
\* with fewer than 128 datagrams missing before it. lastSeq: the number of the
\* last datagram handed over. skipped: the datagrams missing before those handed
\* over. try: the last decrypt call: the kind of datagram ("sent" for one taken
\* from out as it is), its place in out, the bytes handed over, the result, and
\* the receiver's state before the call.
cryptInit ==
  crypt = [tx |-> NewCryptState, rx |-> NewCryptState, out |-> <<>>, encrypts |-> 0,
           runs |-> 0, tries |-> 0, forgeries |-> 0, accepts |-> <<>>, orderly |-> TRUE, lastSeq |-> 0,
           skipped |-> 0, try |-> NoTry]

\* the bytes a sampled value starts with, and the byte that fills the rest
LeadingBytes == {1, 15, 16, 31, 32, 63, 64, 127, 128, 255}
FillBytes == {0, 90, 255}

\* the values written and read back: zero, and for every length in bytes a
\* value of that length with every leading byte and every fill
VarintValues ==
  {BigInt(0)} \cup
  {[k \in 1..8 |-> IF k < at THEN 0 ELSE IF k = at THEN lead ELSE fill] :
     at \in 1..8, lead \in LeadingBytes, fill \in FillBytes}

\* the packets encoded: targets, sequence numbers below 2^30 and payload sizes
PacketTargets == {0, 5, 31}
PacketSequences == {0, 1, 127, 128, 16383, 16384, 2097152, 1073741823}
PacketSizes == {0, 1, 3, 128, 8191}

\* the payload of a given size
OpusData(size) == [k \in 1..size |-> (k * 37 + 11) % 256]

NoParams == [target |-> 0, sequence |-> 0, size |-> 0, isLastFrame |-> FALSE]

\* op: what was done last. value, buf, read: the value written, the bytes, and
\* what readMumbleVarint(buf, 0) returned. params, decoded: the parameters of
\* the packet encoded and what the decoder returned for it.
NoCodec ==
  [op |-> "none", value |-> BigInt(0), buf |-> <<>>, read |-> Threw,
   params |-> NoParams, decoded |-> NoPacket]

codecInit == codec = NoCodec

\* the keys, IVs and plaintexts encrypted: a ping, one block, one block and a
\* byte, 20 zero bytes, two blocks and a byte, and 36 bytes whose second block
\* is zero
AeadKeys == {CryptKey, [k \in 1..AES_KEY_SIZE_BYTES |-> (k * 53 + 7) % 256]}
AeadIvs == {nonce(9, 0), nonce(255, 255)}
AeadPlains ==
  {<<32, 5>>,
   [k \in 1..16 |-> k],
   [k \in 1..17 |-> 200 + k],
   [k \in 1..20 |-> 0],
   [k \in 1..33 |-> (k * 11) % 256],
   [k \in 1..36 |-> IF k \in 17..32 THEN 0 ELSE k]}

\* the bits flipped: the byte of the datagram (2 to 4 are the tag; 0 stands for
\* the last byte) and the value of the bit
FlipBytes == {2, 3, 4, 5, 0}
FlipBits == {1, 128}

\* op: what was done last. key, iv, plain: the key and IV of both ends and the
\* plaintext encrypted. sent: encrypt returned a datagram. source: the datagram
\* handed to decrypt. ok, out: whether decrypt accepted it, and the plaintext it
\* returned.
NoAead ==
  [op |-> "none", key |-> <<>>, iv |-> <<>>, plain |-> <<>>, source |-> <<>>,
   sent |-> FALSE, ok |-> FALSE, out |-> <<>>]

aeadInit == aead = NoAead

-----------------------------------------------------------------------------
(* MumbleUdpVoiceClient (udp-voice-client) *)

MaxUdpSetups == 2
MaxUdpDatagrams == 2
MaxUdpPings == 1
MaxPendingPings == 10

\* a CryptSetup message: present names the fields that are not null
CryptSetupMessage(key, clientNonce, serverNonce, present) ==
  [key |-> key, clientNonce |-> clientNonce, serverNonce |-> serverNonce, present |-> present]

NoCryptSetup == CryptSetupMessage(<<>>, <<>>, <<>>, {})

canApplyFullKey(msg) == msg.present = {"key", "clientNonce", "serverNonce"}

\* CryptStateOCB2.isValid and getEncryptIV
isValid(cs) == cs.init

getEncryptIV(cs) == cs.encryptIv

\* CryptStateOCB2.setDecryptIV
setDecryptIV(cs, iv) ==
  IF Len(iv) # AES_BLOCK_SIZE THEN cs ELSE [cs EXCEPT !.decryptIv = iv]

\* the fields of a MumbleUdpVoiceClient before its constructor has run; sentPings
\* and sentCryptSetups count what it has put on the UDP socket and the TCP client,
\* sentNonce is the clientNonce of the last CryptSetup it sent, decrypted the
\* datagrams for which decrypt returned a plaintext, escaped the exceptions
\* that left _onUdpMessage for the socket that called it
UdpVoiceFields ==
  [crypt |-> NewCryptState, pingTimer |-> FALSE, udpReady |-> FALSE, closed |-> FALSE,
   pendingPings |-> <<>>, subscribed |-> FALSE, socket |-> "open", clock |-> 0,
   sentPings |-> 0, sentCryptSetups |-> 0, sentNonce |-> <<>>, udpReadyEvents |-> 0,
   voiceEvents |-> 0, decrypted |-> 0, escaped |-> 0]

\* the end of _sendPing: e is what encrypt returned
udpSendPingOut(u, ts, e) ==
  IF ~e.ok THEN [u EXCEPT !.clock = ts, !.crypt = e.cs]
  ELSE [u EXCEPT !.clock = ts, !.crypt = e.cs,
                 !.pendingPings =
                    LET p == Append(SelectSeq(@, LAMBDA t : t # ts), ts)
                    IN IF Len(p) > MaxPendingPings THEN Tail(p) ELSE p,
                 !.sentPings = @ + 1]

\* _sendPing at Date.now() = ts
udpSendPing(u, ts) ==
  IF ~u.crypt.init \/ u.closed THEN u
  ELSE udpSendPingOut(u, ts, encrypt(u.crypt, <<32>> \o writeMumbleVarint(BigInt(ts))))

\* _ensurePingTimer
udpEnsurePingTimer(u) ==
  IF u.pingTimer THEN u
  ELSE [udpSendPing(u, u.clock + 1) EXCEPT !.pingTimer = TRUE]

\* the end of _setKeyFromMessage: cs is the crypt state after setKey, ok its result
udpSetKeyOut(u, cs, ok) ==
  IF ~ok THEN [u EXCEPT !.crypt = cs] ELSE udpEnsurePingTimer([u EXCEPT !.crypt = cs])

\* _setKeyFromMessage
udpSetKeyFromMessage(u, msg) ==
  udpSetKeyOut(u, setKey(u.crypt, msg.key, msg.clientNonce, msg.serverNonce),
               Len(msg.key) = AES_KEY_SIZE_BYTES /\ Len(msg.clientNonce) = AES_BLOCK_SIZE
                 /\ Len(msg.serverNonce) = AES_BLOCK_SIZE)

\* _applyKnownCryptSetup
udpApplyKnownCryptSetup(u, state) ==
  IF canApplyFullKey(state) THEN udpSetKeyFromMessage(u, state)
  ELSE IF "serverNonce" \in state.present
  THEN [u EXCEPT !.crypt = setDecryptIV(@, state.serverNonce)]
  ELSE u

\* new MumbleUdpVoiceClient over a TCP client that holds the CryptSetup state
NewUdpVoiceClient(state) ==
  udpApplyKnownCryptSetup([UdpVoiceFields EXCEPT !.subscribed = TRUE], state)

\* _onCryptSetup
udpOnCryptSetup(u, msg) ==
  IF canApplyFullKey(msg) THEN udpSetKeyFromMessage(u, msg)
  ELSE IF "serverNonce" \in msg.present
  THEN [u EXCEPT !.crypt = [setDecryptIV(@, msg.serverNonce)
                              EXCEPT !.statsLocal.resync = @ + 1]]
  ELSE IF isValid(u.crypt)
  THEN [u EXCEPT !.sentCryptSetups = @ + 1, !.sentNonce = getEncryptIV(u.crypt)]
  ELSE u

\* the end of _onUdpMessage: d is what decrypt returned, decoded what the decoder
\* returned for d.plain
udpOnUdpMessageOut(u, d, decoded) ==
  IF ~d.ok THEN [u EXCEPT !.crypt = d.cs]
  ELSE IF decoded.kind = "throw"
  THEN [u EXCEPT !.crypt = d.cs, !.decrypted = @ + 1, !.escaped = @ + 1]
  ELSE IF decoded.kind = "null"
  THEN [u EXCEPT !.crypt = d.cs, !.decrypted = @ + 1]
  ELSE [u EXCEPT !.crypt = d.cs,
                 !.decrypted = @ + 1,
                 !.udpReady = TRUE,
                 !.udpReadyEvents = IF u.udpReady THEN @ ELSE @ + 1,
                 !.pendingPings =
                    IF decoded.kind = "ping"
                    THEN SelectSeq(@, LAMBDA t : BigInt(t) # decoded.timestamp.value)
                    ELSE @,
                 !.voiceEvents = IF decoded.kind = "opus" THEN @ + 1 ELSE @]

\* _onUdpMessage once the datagram is decrypted
udpOnUdpMessageWith(u, d) ==
  udpOnUdpMessageOut(u, d, IF d.ok THEN decodeLegacyVoicePacketFromServer(d.plain)
                           ELSE NoPacket)

\* _onUdpMessage that marks the client ready before the datagram is decrypted
udpOnUdpMessageMut(u, msg) ==
  IF u.closed THEN u
  ELSE IF ~u.crypt.init THEN [u EXCEPT !.udpReady = TRUE, !.udpReadyEvents = @ + 1]
  ELSE udpOnUdpMessageWith(u, decrypt(u.crypt, msg))

\* _onUdpMessage
udpOnUdpMessage(u, msg) ==
  IF u.closed THEN u
  ELSE IF ~u.crypt.init THEN u
  ELSE udpOnUdpMessageWith(u, decrypt(u.crypt, msg))

\* MumbleUdpVoiceClient.close
udpClose(u) ==
  IF u.closed THEN u
  ELSE [u EXCEPT !.closed = TRUE, !.pingTimer = FALSE, !.subscribed = FALSE,
                 !.socket = "closed"]

\* The datagrams a server sends: a ping that echoes the client's clock, an Opus
\* packet of session 7, a packet of a type the decoder does not know, a ping
\* cut after its header, an Opus packet cut inside its sequence number, and an
\* Opus packet whose size term asks for 5 bytes where 1 is left
ServerPlains ==
  [ping |-> <<32, 1>>, opus |-> <<128, 7, 0, 2, 90, 91>>, other |-> <<0, 1, 2>>,
   cutPing |-> <<32>>, cutOpus |-> <<128, 7, 240, 0>>, long |-> <<128, 7, 0, 5, 90>>]

\* packets the decoder cannot decode
Undecodable == {"other", "cutPing", "cutOpus", "long"}

\* TypedEmitter.emit around one listener: what the listener throws is caught
\* and ignored
listen(threw) == IF threw THEN "caught" ELSE "returned"

\* MumbleSession seen from its TCP client: voiceEvents counts the frames
\* _onTunnelPacket handed to _emitVoice, last is how the udpTunnel listener ended
NoTunnel == [voiceEvents |-> 0, last |-> "none"]

\* tcp.events.emit('udpTunnel', payload) with _onTunnelPacket listening
onTunnelPacket(t, decoded) ==
  [voiceEvents |-> IF decoded.kind = "opus" THEN t.voiceEvents + 1 ELSE t.voiceEvents,
   last |-> listen(decoded.kind = "throw")]

\* bytes that no CryptStateOCB2 produced, and a datagram too short to hold a tag
StrayDatagrams == {<<17, 1, 2, 3, 4, 5, 6>>, <<1, 2, 3>>}

\* the CryptSetup messages a server sends: the full triple, a triple whose key
\* has the wrong length, a server nonce alone, and the request for the client's nonce
FullCryptSetup ==
  CryptSetupMessage(CryptKey, nonce(1, 0), nonce(254, 0), {"key", "clientNonce", "serverNonce"})

ShortKeyCryptSetup ==
  CryptSetupMessage(<<1, 2, 3>>, nonce(1, 0), nonce(254, 0), {"key", "clientNonce", "serverNonce"})

NonceCryptSetup(serverNonce) == CryptSetupMessage(<<>>, <<>>, serverNonce, {"serverNonce"})

\* op: the last step. msg: the CryptSetup it delivered. before: the client
\* before it.
NoUdpStep == [op |-> "none", msg |-> NoCryptSetup, before |-> UdpVoiceFields]

\* MumbleTcpClient on a CryptSetup message: the fields received are kept in
\* tcp.cryptSetup before 'cryptSetup' is emitted
udpKeepCryptSetup(known, msg) ==
  [key |-> IF "key" \in msg.present THEN msg.key ELSE known.key,
   clientNonce |-> IF "clientNonce" \in msg.present THEN msg.clientNonce ELSE known.clientNonce,
   serverNonce |-> IF "serverNonce" \in msg.present THEN msg.serverNonce ELSE known.serverNonce,
   present |-> known.present \cup msg.present]

\* sendOpusFrame / sendOpusEnd calls followed on the session
MaxUdpSends == 2
\* TcpMessageType.UDPTunnel
UDPTunnel == 1

\* MumbleTcpClient.sendMessage: the bytes written to the TLS socket, none once
\* the client is closed
sendMessageBytes(closed, type, payload) ==
  IF closed THEN <<>>
  ELSE <<(type \div 256) % 256, type % 256,
         (Len(payload) \div 16777216) % 256, (Len(payload) \div 65536) % 256,
         (Len(payload) \div 256) % 256, Len(payload) % 256>> \o payload

\* MumbleUdpVoiceClient.canSend
udpCanSend(u) == ~u.closed /\ isValid(u.crypt)

\* what sendPlainPacket leaves: the client, its result and the datagram the
\* socket took
PlainPacketResult(u, ok, datagram) == [u |-> u, ok |-> ok, datagram |-> datagram]

\* the end of sendPlainPacket: e is what encrypt returned, throws whether
\* socket.send throws
sendPlainPacketOut(u, e, throws) ==
  IF ~e.ok \/ throws THEN PlainPacketResult([u EXCEPT !.crypt = e.cs], FALSE, <<>>)
  ELSE PlainPacketResult([u EXCEPT !.crypt = e.cs], TRUE, e.out)

\* MumbleUdpVoiceClient.sendPlainPacket
sendPlainPacket(u, plain, throws) ==
  IF ~udpCanSend(u) THEN PlainPacketResult(u, FALSE, <<>>)
  ELSE sendPlainPacketOut(u, encrypt(u.crypt, plain), throws)

\* what one sendOpusFrame / sendOpusEnd call did: the packet it encoded, whether
\* it saw udpReady, what sendPlainPacket returned (tried: it was called), the
\* datagrams put on the UDP socket and the bytes written to the TLS socket
NoSendOut ==
  [packet |-> <<>>, ready |-> FALSE, tried |-> FALSE, ok |-> FALSE, udp |-> <<>>,
   tls |-> <<>>]

\* the end of sendOpusFrame / sendOpusEnd that goes on to the tunnel after
\* sendPlainPacket returned true
sendPacketOutMut(r, ready, tcpClosed, packet) ==
  [u |-> r.u,
   out |-> [packet |-> packet, ready |-> ready, tried |-> ready, ok |-> r.ok,
            udp |-> IF r.ok THEN <<r.datagram>> ELSE <<>>,
            tls |-> sendMessageBytes(tcpClosed, UDPTunnel, packet)]]

\* the end of sendOpusFrame / sendOpusEnd: r is what sendPlainPacket returned,
\* or a failure where it was not called
sendPacketOut(r, ready, tcpClosed, packet) ==
  [u |-> r.u,
   out |-> [packet |-> packet, ready |-> ready, tried |-> ready, ok |-> r.ok,
            udp |-> IF r.ok THEN <<r.datagram>> ELSE <<>>,
            tls |-> IF r.ok THEN <<>> ELSE sendMessageBytes(tcpClosed, UDPTunnel, packet)]]

\* MumbleSession.sendOpusFrame / sendOpusEnd once the packet is encoded: hasUdp
\* is whether this._udp is set
sendPacket(u, hasUdp, tcpClosed, packet, throws) ==
  IF hasUdp /\ u.udpReady
  THEN sendPacketOut(sendPlainPacket(u, packet, throws), TRUE, tcpClosed, packet)
  ELSE sendPacketOut(PlainPacketResult(u, FALSE, <<>>), FALSE, tcpClosed, packet)

\* stage: "tcp" until the session is built, then "session". known: the
\* CryptSetup state the TCP client holds. c: the UDP client. srv: the server's
\* CryptStateOCB2. setups, datagrams, pings, sends: steps taken so far. out:
\* what the last sendOpusFrame / sendOpusEnd call did. pkt: the packet the last
\* datagram or tunnel message carried. tunnel: the session's udpTunnel listener.
udpVoiceInit ==
  udpVoice = [stage |-> "tcp", known |-> NoCryptSetup, c |-> UdpVoiceFields,
              srv |-> NewCryptState, setups |-> 0, datagrams |-> 0, pings |-> 0,
              sends |-> 0, out |-> NoSendOut, pkt |-> "none", tunnel |-> NoTunnel,
              step |-> NoUdpStep]

-----------------------------------------------------------------------------
(* The browser's uplink queue (gateway-store) *)

\* frames the microphone encoder hands to sendMicOpus
MaxMicFrames == 12
\* uplink.queue.length above which the oldest frames are dropped
UPLINK_QUEUE_MAX == 10
\* frames one pacer tick sends at most
UPLINK_TICK_BURST == 5

\* queue, pacerId, droppedTotal: the fields of `uplink`; the queue holds the
\* numbers of the frames in it. open: ws.readyState === OPEN. mic: frames handed
\* to sendMicOpus. sent: frames passed to ws.send. ends: end markers sent.
\* step: the last handler and, for sendMicOpus, the queue and the counter it
\* found and whether it found ws.bufferedAmount above uplinkMaxBufferedAmountBytes.
NoBrowserStep == [op |-> "none", queue |-> <<>>, droppedTotal |-> 0, congested |-> FALSE]

NoBrowser ==
  [open |-> TRUE, queue |-> <<>>, pacerId |-> FALSE, droppedTotal |-> 0, mic |-> 0,
   sent |-> 0, ends |-> 0, step |-> NoBrowserStep]

browserInit == browser = NoBrowser

\* stopUplinkPacer
stopUplinkPacer(b) == [b EXCEPT !.pacerId = FALSE, !.queue = <<>>]

\* startUplinkPacer: setInterval unless the pacer runs
startUplinkPacer(b) == [b EXCEPT !.pacerId = TRUE]

\* the last n items of q
lastItems(q, n) == SubSeq(q, Len(q) - n + 1, Len(q))

\* the callback of the 20 ms interval: congested says ws.bufferedAmount is above
\* the limit when it starts, room how many frames ws.send takes before it is
uplinkPacerTick(b, congested, room) ==
  IF ~b.open THEN stopUplinkPacer(b)
  ELSE IF Len(b.queue) = 0 THEN stopUplinkPacer(b)
  ELSE IF congested
  THEN IF Len(b.queue) > 1
       THEN [b EXCEPT !.droppedTotal = @ + Len(b.queue) - 1, !.queue = lastItems(@, 1)]
       ELSE b
  ELSE LET n == Min({Len(b.queue), UPLINK_TICK_BURST, room})
       IN [b EXCEPT !.sent = @ + n,
                    !.queue = SubSeq(@, n + 1, Len(@))]

\* sendMicOpus that drops the newest frames of a queue above the limit
sendMicOpusMut(b, frame, congested) ==
  IF ~b.open THEN b
  ELSE IF Len(b.queue) = 0 /\ ~b.pacerId /\ ~congested
  THEN [b EXCEPT !.sent = @ + 1]
  ELSE IF congested
  THEN startUplinkPacer([b EXCEPT !.droppedTotal = @ + Len(b.queue), !.queue = <<frame>>])
  ELSE LET pushed == Append(b.queue, frame)
           drop == Len(pushed) - UPLINK_QUEUE_MAX
       IN IF Len(pushed) > UPLINK_QUEUE_MAX
          THEN startUplinkPacer([b EXCEPT !.droppedTotal = @ + drop,
                                          !.queue = SubSeq(pushed, 1, UPLINK_QUEUE_MAX)])
          ELSE startUplinkPacer([b EXCEPT !.queue = pushed])

\* sendMicOpus with uplinkCongestionControlEnabled, its default
sendMicOpus(b, frame, congested) ==
  IF ~b.open THEN b
  ELSE IF Len(b.queue) = 0 /\ ~b.pacerId /\ ~congested
  THEN [b EXCEPT !.sent = @ + 1]
  ELSE IF congested
  THEN startUplinkPacer([b EXCEPT !.droppedTotal = @ + Len(b.queue), !.queue = <<frame>>])
  ELSE LET pushed == Append(b.queue, frame)
           drop == Len(pushed) - UPLINK_QUEUE_MAX
       IN IF Len(pushed) > UPLINK_QUEUE_MAX
          THEN startUplinkPacer([b EXCEPT !.droppedTotal = @ + drop,
                                          !.queue = SubSeq(pushed, drop + 1, Len(pushed))])
          ELSE startUplinkPacer([b EXCEPT !.queue = pushed])

\* sendMicEnd with uplinkCongestionControlEnabled
sendMicEnd(b) ==
  IF ~b.open THEN b
  ELSE [stopUplinkPacer([b EXCEPT !.droppedTotal = @ + Len(b.queue), !.queue = <<>>])
          EXCEPT !.ends = @ + 1]

-----------------------------------------------------------------------------
(* The supervisor's session with everything cleanup() reaches *)

\* connects, uplink messages and keepalive pings followed
MaxTeardownConnects == 2
MaxTeardownUplinks == 2
MaxTeardownKeepalives == 2
\* subscriptions of attachMumbleEventForwarders, and of a MumbleSession on its
\* TLS client and on its UDP client
FORWARDERS == 11
TCP_RELAYS == 11
UDP_RELAYS == 3

\* a MumbleTcpClient after ServerSync
SyncedTcp == [closed |-> FALSE, keepalive |-> TRUE, sock |-> "open"]

\* new MumbleSession({ tcp, udp }): state is the CryptSetup the TLS client holds
NewSession(state) ==
  LET udp == NewUdpVoiceClient(state)
  IN [unsubscribers |-> TCP_RELAYS + UDP_RELAYS,
      fallbackTimer |-> ~udp.closed /\ udp.crypt.init,
      hasUdp |-> TRUE, udp |-> udp, tcp |-> SyncedTcp]

\* MumbleSession.close that leaves the UDP client alone
mumbleCloseMut(m) ==
  [m EXCEPT !.fallbackTimer = FALSE, !.unsubscribers = 0, !.tcp = tcpClose(@)]

\* MumbleSession.close
mumbleClose(m) ==
  [m EXCEPT !.fallbackTimer = FALSE,
            !.unsubscribers = 0,
            !.udp = IF m.hasUdp THEN udpClose(@) ELSE @,
            !.hasUdp = FALSE,
            !.tcp = tcpClose(@)]

\* the Session object of the connect branch
SessionObject(mumble) ==
  [mumble |-> mumble, mumbleUnsubscribers |-> FORWARDERS, uplinkPacer |-> NewPacer]

\* session, metricsInterval: whether the supervisor's variables are set. s: the
\* Session object `session` holds or held last, before the first connect one
\* with everything closed. sent: messages put on the WebSocket and on the TLS
\* socket.
NoSupervisor ==
  [session |-> FALSE, metricsInterval |-> FALSE,
   s |-> [mumble |-> [unsubscribers |-> 0, fallbackTimer |-> FALSE, hasUdp |-> FALSE,
                      udp |-> [UdpVoiceFields EXCEPT !.closed = TRUE, !.socket = "closed"],
                      tcp |-> [closed |-> TRUE, keepalive |-> FALSE, sock |-> "closed"]],
          mumbleUnsubscribers |-> 0,
          uplinkPacer |-> [NewPacer EXCEPT !.live = FALSE]],
   sent |-> [ws |-> 0, tls |-> 0]]

\* sup: the supervisor. connects, uplinks: steps taken. op: the last step.
\* before: the supervisor before it.
teardownInit ==
  teardown = [sup |-> NoSupervisor, connects |-> 0, uplinks |-> 0, op |-> "none",
              before |-> NoSupervisor]

(***************************************************************************)
(* MumbleTcpClient on its TLS byte stream: the protobuf reader and writer, *)
(* the message decoders, the framer and the message handler                *)
(***************************************************************************)

\* TcpMessageType
Reject == 4
ServerSync == 5
ChannelRemove == 6
ChannelState == 7
UserRemove == 8
UserState == 9
TextMessage == 11
CryptSetup == 15

\* an optional field of a decoded message: a number, or a string (its bytes)
NoNumber == [has |-> FALSE, v |-> 0]
NoString == [has |-> FALSE, v |-> <<>>]
Some(v) == [has |-> TRUE, v |-> v]
\* a ?? b
Coalesce(a, b) == IF a.has THEN a ELSE b

\* ProtobufReader.readVarint gives up after this many bytes
MaxVarintBytes == 10

RECURSIVE readVarintFrom(_, _, _, _, _)
readVarintFrom(buf, pos, i, shift, value) ==
  IF i >= MaxVarintBytes THEN [ok |-> FALSE, v |-> 0, pos |-> pos]
  ELSE IF pos >= Len(buf) THEN [ok |-> FALSE, v |-> 0, pos |-> pos]
  ELSE LET b == buf[pos + 1]
           next == value + (b % 128) * shift
       IN IF b < 128 THEN [ok |-> TRUE, v |-> next, pos |-> pos + 1]
          ELSE readVarintFrom(buf, pos + 1, i + 1, shift * 128, next)

\* ProtobufReader.readVarint at position pos (0-based); ok is FALSE when it throws
readVarint(buf, pos) == readVarintFrom(buf, pos, 0, 1, 0)

\* the bytes after a length already read
bytesOfLength(buf, length) ==
  IF ~length.ok \/ length.pos + length.v > Len(buf)
  THEN [ok |-> FALSE, v |-> <<>>, pos |-> length.pos]
  ELSE [ok |-> TRUE, v |-> SubSeq(buf, length.pos + 1, length.pos + length.v),
        pos |-> length.pos + length.v]

\* ProtobufReader.readBytes
readBytes(buf, pos) == bytesOfLength(buf, readVarint(buf, pos))

\* ProtobufReader.readUint32, as the one-element list of its value
readNumber(buf, pos) ==
  LET v == readVarint(buf, pos) IN [ok |-> v.ok, v |-> <<v.v>>, pos |-> v.pos]

\* ProtobufReader.skip
skip(buf, pos, wireType) ==
  CASE wireType = 0 -> readNumber(buf, pos)
    [] wireType = 1 -> [ok |-> pos + 8 <= Len(buf), v |-> <<>>, pos |-> pos + 8]
    [] wireType = 2 -> readBytes(buf, pos)
    [] wireType = 5 -> [ok |-> pos + 4 <= Len(buf), v |-> <<>>, pos |-> pos + 4]
    [] OTHER -> [ok |-> FALSE, v |-> <<>>, pos |-> pos]

\* The `for (;;) { readTag ... switch (tag.fieldNumber) }` loop every decoder is
\* made of: a field the decoder names is read as the decoder reads it ("varint"
\* or "bytes"), whatever its wire type; any other field is skipped by wire type.
\* The result lists the named fields in wire order; ok is FALSE when a read throws.
RECURSIVE readFields(_, _, _)

\* a named field read, in front of the fields that follow it
fieldThen(fieldNumber, r, rest) ==
  IF ~rest.ok THEN [ok |-> FALSE, fields |-> <<>>]
  ELSE [ok |-> TRUE, fields |-> <<[f |-> fieldNumber, v |-> r.v]>> \o rest.fields]

\* the loop after one field was read (named is TRUE) or skipped
afterField(buf, known, fieldNumber, named, r) ==
  IF ~r.ok THEN [ok |-> FALSE, fields |-> <<>>]
  ELSE IF named THEN fieldThen(fieldNumber, r, readFields(buf, r.pos, known))
  ELSE readFields(buf, r.pos, known)

\* the loop after readTag
afterTag(buf, known, tag) ==
  IF ~tag.ok THEN [ok |-> FALSE, fields |-> <<>>]
  ELSE IF (tag.v \div 8) \in DOMAIN known
  THEN afterField(buf, known, tag.v \div 8, TRUE,
                  IF known[tag.v \div 8] = "bytes" THEN readBytes(buf, tag.pos)
                  ELSE readNumber(buf, tag.pos))
  ELSE afterField(buf, known, tag.v \div 8, FALSE, skip(buf, tag.pos, tag.v % 8))

readFields(buf, pos, known) ==
  IF pos >= Len(buf) THEN [ok |-> TRUE, fields |-> <<>>]
  ELSE afterTag(buf, known, readVarint(buf, pos))

FieldsOf(fields, f) == SelectSeq(fields, LAMBDA x : x.f = f)
\* out.x = r.readUint32(): the last occurrence of the field wins
NumberOf(fields, f) ==
  LET s == FieldsOf(fields, f) IN IF s = <<>> THEN NoNumber ELSE Some(s[Len(s)].v[1])
\* out.x = r.readString()
StringOf(fields, f) ==
  LET s == FieldsOf(fields, f) IN IF s = <<>> THEN NoString ELSE Some(s[Len(s)].v)
\* out.xs.push(r.readUint32())
NumbersOf(fields, f) ==
  LET s == FieldsOf(fields, f) IN [k \in 1..Len(s) |-> s[k].v[1]]

\* decodeReject
rejectOf(r) ==
  [ok |-> r.ok, type |-> NumberOf(r.fields, 1), reason |-> StringOf(r.fields, 2)]

decodeReject(buf) == rejectOf(readFields(buf, 0, (1 :> "varint") @@ (2 :> "bytes")))

\* decodeServerSync
serverSyncOf(r) ==
  [ok |-> r.ok, session |-> NumberOf(r.fields, 1),
   maxBandwidth |-> NumberOf(r.fields, 2), welcomeText |-> StringOf(r.fields, 3)]

decodeServerSync(buf) ==
  serverSyncOf(readFields(buf, 0, (1 :> "varint") @@ (2 :> "varint") @@ (3 :> "bytes")
                                  @@ (4 :> "varint")))

\* decodeChannelState
channelStateOf(r) ==
  [ok |-> r.ok,
   channelId |-> NumberOf(r.fields, 1), parent |-> NumberOf(r.fields, 2),
   name |-> StringOf(r.fields, 3), links |-> NumbersOf(r.fields, 4),
   description |-> StringOf(r.fields, 5), linksAdd |-> NumbersOf(r.fields, 6),
   linksRemove |-> NumbersOf(r.fields, 7), position |-> NumberOf(r.fields, 9)]

decodeChannelState(buf) ==
  channelStateOf(readFields(buf, 0, (1 :> "varint") @@ (2 :> "varint") @@ (3 :> "bytes")
                                    @@ (4 :> "varint") @@ (5 :> "bytes") @@ (6 :> "varint")
                                    @@ (7 :> "varint") @@ (9 :> "varint")))

\* decodeChannelRemove / decodeUserRemove: field 1; a message without it throws
removeOf(r) ==
  [ok |-> r.ok /\ NumberOf(r.fields, 1).has, id |-> NumberOf(r.fields, 1).v]

decodeRemove(buf) == removeOf(readFields(buf, 0, (1 :> "varint")))

\* decodeUserState, the mute and deaf flags left aside
userStateOf(r) ==
  [ok |-> r.ok, session |-> NumberOf(r.fields, 1), name |-> StringOf(r.fields, 3),
   channelId |-> NumberOf(r.fields, 5)]

decodeUserState(buf) ==
  userStateOf(readFields(buf, 0, (1 :> "varint") @@ (3 :> "bytes") @@ (5 :> "varint")
                                 @@ (6 :> "varint") @@ (7 :> "varint") @@ (8 :> "varint")
                                 @@ (9 :> "varint") @@ (10 :> "varint")))

\* decodeTextMessage
textMessageOf(r) ==
  [ok |-> r.ok, actor |-> NumberOf(r.fields, 1), message |-> StringOf(r.fields, 5)]

decodeTextMessage(buf) ==
  textMessageOf(readFields(buf, 0, (1 :> "varint") @@ (2 :> "varint") @@ (3 :> "varint")
                                   @@ (4 :> "varint") @@ (5 :> "bytes")))

\* ProtobufWriter._pushVarint
RECURSIVE pushVarint(_)
pushVarint(v) ==
  IF v >= 128 THEN <<(v % 128) + 128>> \o pushVarint(v \div 128) ELSE <<v>>

\* ProtobufWriter.uint32: the tag (wire type 0), then the value
uint32(fieldNumber, value) == pushVarint(fieldNumber * 8) \o pushVarint(value)

\* ProtobufWriter.string, the string given as its UTF-8 bytes
writeString(fieldNumber, value) ==
  pushVarint(fieldNumber * 8 + 2) \o pushVarint(Len(value)) \o value

\* encodeUserState
encodeUserState(sess, channelId) ==
  (IF sess.has THEN uint32(1, sess.v) ELSE <<>>)
  \o (IF channelId.has THEN uint32(5, channelId.v) ELSE <<>>)

\* One entry of what a client did, in order: a message handed to _handleMessage
\* ("message"), an event it emitted ("emit"), a write to its socket ("write")
Did(k, e, id, data) == [k |-> k, e |-> e, id |-> id, data |-> data]

\* The client `connect` returns: its keepalive interval runs, nothing is buffered.
\* A channel's missing links are the empty list; `did` is what it did since.
NewTcpClient ==
  [buffer |-> <<>>, closed |-> FALSE, keepalive |-> TRUE, destroyed |-> FALSE,
   selfUserId |-> 0, channels |-> <<>>, users |-> <<>>, did |-> <<>>]

\* this.events.emit
tcpEmit(c, e, id, data) == [c EXCEPT !.did = Append(@, Did("emit", e, id, data))]

\* MumbleTcpClient.close, the socket ended and destroyed
closeSocket(c) ==
  IF c.closed THEN c
  ELSE [c EXCEPT !.closed = TRUE, !.keepalive = FALSE, !.destroyed = TRUE]

\* MumbleTcpClient._onClose
tcpOnClose(c) ==
  tcpEmit([c EXCEPT !.keepalive = FALSE, !.closed = TRUE], "disconnected", 0, <<>>)

\* MumbleTcpClient.sendMessage
tcpSendMessage(c, type, payload) ==
  IF c.closed THEN c
  ELSE [c EXCEPT !.did = Append(@, Did("write", "socket", type, payload))]

\* `this.selfUserId ? { session: this.selfUserId } : {}`
selfSession(c) == IF c.selfUserId # 0 THEN Some(c.selfUserId) ELSE NoNumber

\* MumbleTcpClient.joinChannel
joinChannel(c, channelId) ==
  tcpSendMessage(c, UserState, encodeUserState(selfSession(c), Some(channelId)))

\* encodeTextMessage for a message to one channel
encodeTextMessage(message, channelId) ==
  (IF channelId.has THEN uint32(3, channelId.v) ELSE <<>>) \o writeString(5, message)

\* MumbleTcpClient.sendTextMessage with a channelId and no userId
sendTextMessage(c, message, channelId) ==
  IF message = <<>> THEN c
  ELSE tcpSendMessage(c, TextMessage, encodeTextMessage(message, Some(channelId)))

\* a map with key k set to v, as Map.set leaves it
MapSet(m, k, v) == [x \in (DOMAIN m) \cup {k} |-> IF x = k THEN v ELSE m[x]]
\* Map.delete
MapDelete(m, k) == [x \in (DOMAIN m) \ {k} |-> m[x]]

SeqRange(s) == {s[k] : k \in DOMAIN s}

\* new Set(list), then set.add / set.delete for each id, then [...set]
RECURSIVE setAddAll(_, _)
setAddAll(s, ids) ==
  IF ids = <<>> THEN s
  ELSE setAddAll(IF ids[1] \in SeqRange(s) THEN s ELSE Append(s, ids[1]), Tail(ids))

setDeleteAll(s, ids) == SelectSeq(s, LAMBDA x : x \notin SeqRange(ids))

\* The links of the ChannelState case: a non-empty `links` replaces, else the
\* delta applies when either list is non-empty, else the previous list stays
mergeLinksMut(linksPrev, ch) ==
  IF Len(ch.links) > 0 THEN ch.links
  ELSE IF Len(ch.linksAdd) > 0 \/ Len(ch.linksRemove) > 0
  THEN setAddAll(setAddAll(<<>>, linksPrev), ch.linksAdd)
  ELSE linksPrev

mergeLinks(linksPrev, ch) ==
  IF Len(ch.links) > 0 THEN ch.links
  ELSE IF Len(ch.linksAdd) > 0 \/ Len(ch.linksRemove) > 0
  THEN setDeleteAll(setAddAll(setAddAll(<<>>, linksPrev), ch.linksAdd), ch.linksRemove)
  ELSE linksPrev

\* the catch block of _handleMessage
handleFailed(c) == tcpEmit(c, "error", 0, <<>>)

\* The ChannelState case of _handleMessage, after decodeChannelState
channelUpsert(c, ch) ==
  IF ~ch.ok THEN handleFailed(c)
  ELSE IF ~ch.channelId.has THEN c
  ELSE LET id == ch.channelId.v
           known == id \in DOMAIN c.channels
           prev == c.channels[id]
           next == [id |-> id,
                    name |-> Coalesce(ch.name,
                                      IF known THEN Some(prev.name) ELSE Some(<<>>)).v,
                    parentId |-> IF id = 0 THEN NoNumber
                                 ELSE Coalesce(ch.parent,
                                               IF known THEN prev.parentId ELSE NoNumber),
                    position |-> Coalesce(ch.position,
                                          IF known THEN prev.position ELSE NoNumber),
                    description |-> Coalesce(ch.description,
                                             IF known THEN prev.description ELSE NoString),
                    links |-> mergeLinks(IF known THEN prev.links ELSE <<>>, ch)]
       IN tcpEmit([c EXCEPT !.channels = MapSet(@, id, next)], "channelUpsert", id, <<>>)

\* The UserState case of _handleMessage, after decodeUserState
userUpsert(c, u) ==
  IF ~u.ok THEN handleFailed(c)
  ELSE IF ~u.session.has THEN c
  ELSE LET id == u.session.v
           known == id \in DOMAIN c.users
           prev == c.users[id]
           next == [id |-> id,
                    name |-> Coalesce(u.name,
                                      IF known THEN Some(prev.name) ELSE Some(<<>>)).v,
                    channelId |-> Coalesce(u.channelId,
                                           IF known THEN Some(prev.channelId) ELSE Some(0)).v]
       IN tcpEmit([c EXCEPT !.users = MapSet(@, id, next)], "userUpsert", id, <<>>)

\* The ServerSync case of _handleMessage, after decodeServerSync
serverSync(c, sync) ==
  IF ~sync.ok THEN handleFailed(c)
  ELSE IF sync.session.has
  THEN tcpEmit([c EXCEPT !.selfUserId = sync.session.v], "serverSync", sync.session.v, <<>>)
  ELSE tcpEmit(c, "serverSync", c.selfUserId, <<>>)

\* The Reject case of _handleMessage, after decodeReject
rejected(c, rej) ==
  IF ~rej.ok THEN handleFailed(c)
  ELSE closeSocket(tcpEmit(c, "reject", rej.type.v, rej.reason.v))

\* The ChannelRemove case, after decodeChannelRemove
channelRemove(c, msg) ==
  IF ~msg.ok THEN handleFailed(c)
  ELSE tcpEmit([c EXCEPT !.channels = MapDelete(@, msg.id)], "channelRemove", msg.id, <<>>)

\* The UserRemove case, after decodeUserRemove
userRemove(c, msg) ==
  IF ~msg.ok THEN handleFailed(c)
  ELSE tcpEmit([c EXCEPT !.users = MapDelete(@, msg.id)], "userRemove", msg.id, <<>>)

\* The TextMessage case, after decodeTextMessage
textMessage(c, msg) ==
  IF ~msg.ok THEN handleFailed(c)
  ELSE tcpEmit(c, "textMessage", Coalesce(msg.actor, Some(0)).v,
               Coalesce(msg.message, Some(<<>>)).v)

\* the switch of _handleMessage; a decoder that throws ends in the catch block.
\* Version, Ping, PermissionDenied and CodecVersion are not among the messages the
\* server of this model writes.
handleSwitch(c, type, payload) ==
  CASE type = Reject -> rejected(c, decodeReject(payload))
    [] type = ServerSync -> serverSync(c, decodeServerSync(payload))
    [] type = ChannelState -> channelUpsert(c, decodeChannelState(payload))
    [] type = ChannelRemove -> channelRemove(c, decodeRemove(payload))
    [] type = UserState -> userUpsert(c, decodeUserState(payload))
    [] type = UserRemove -> userRemove(c, decodeRemove(payload))
    [] type = TextMessage -> textMessage(c, decodeTextMessage(payload))
    [] type = UDPTunnel -> tcpEmit(c, "udpTunnel", 0, payload)
    [] OTHER -> c

\* MumbleTcpClient._handleMessage
tcpHandleMessage(c, type, payload) ==
  handleSwitch([c EXCEPT !.did = Append(@, Did("message", "handled", type, payload))],
               type, payload)

readUInt16BE(buf, offset) == buf[offset + 1] * 256 + buf[offset + 2]
readUInt32BE(buf, offset) ==
  ((buf[offset + 1] * 256 + buf[offset + 2]) * 256 + buf[offset + 3]) * 256
  + buf[offset + 4]

\* The while loop of _onData
RECURSIVE tcpDrain(_)

\* one turn of the loop with the frame's total length read
drainFrame(c, type, total) ==
  IF Len(c.buffer) < total THEN c
  ELSE tcpDrain(tcpHandleMessage(
         [c EXCEPT !.buffer = SubSeq(c.buffer, total + 1, Len(c.buffer))],
         type, SubSeq(c.buffer, 7, total)))

tcpDrain(c) ==
  IF Len(c.buffer) < 6 THEN c
  ELSE drainFrame(c, readUInt16BE(c.buffer, 0), 6 + readUInt32BE(c.buffer, 2))

tcpOnDataMut(c, chunk) == tcpDrain([c EXCEPT !.buffer = chunk])

\* MumbleTcpClient._onData
tcpOnData(c, chunk) == tcpDrain([c EXCEPT !.buffer = c.buffer \o chunk])

\* The server behind the socket: the messages it wrote, their bytes in stream
\* order, how many of them the socket has handed to _onData, whether the server
\* hung up, whether the socket emitted 'close', the calls made on the client, and
\* whether a chunk completed a message whose first bytes an earlier chunk brought
tcpClientInit ==
  tcpClient = [c |-> NewTcpClient, sent |-> <<>>, stream |-> <<>>, arrived |-> 0,
               hungUp |-> FALSE, closeEmitted |-> FALSE, calls |-> 0,
               joined |-> FALSE]

moreInit ==
  /\ pacerInit /\ downInit /\ fallbackInit /\ cryptInit /\ codecInit /\ aeadInit
  /\ udpVoiceInit /\ teardownInit /\ browserInit /\ tcpClientInit

pacerIdle == UNCHANGED <<supVars, voiceVars, down, fallback, crypt, codec, aead, udpVoice, teardown, browser, tcpClient>>

downIdle == UNCHANGED <<supVars, voiceVars, pacer, fallback, crypt, codec, aead, udpVoice, teardown, browser, tcpClient>>

fallbackIdle == UNCHANGED <<supVars, voiceVars, pacer, down, crypt, codec, aead, udpVoice, teardown, browser, tcpClient>>

cryptIdle == UNCHANGED <<supVars, voiceVars, pacer, down, fallback, codec, aead, udpVoice, teardown, browser, tcpClient>>

codecIdle == UNCHANGED <<supVars, voiceVars, pacer, down, fallback, crypt, aead, udpVoice, teardown, browser, tcpClient>>

aeadIdle == UNCHANGED <<supVars, voiceVars, pacer, down, fallback, crypt, codec, udpVoice, teardown, browser, tcpClient>>

udpVoiceIdle ==
  UNCHANGED <<supVars, voiceVars, pacer, down, fallback, crypt, codec, aead, teardown, browser, tcpClient>>

teardownIdle ==
  UNCHANGED <<supVars, voiceVars, pacer, down, fallback, crypt, codec, aead, udpVoice, browser, tcpClient>>

browserIdle ==
  UNCHANGED <<supVars, voiceVars, pacer, down, fallback, crypt, codec, aead, udpVoice, teardown, tcpClient>>

tcpClientIdle ==
  UNCHANGED <<supVars, voiceVars, pacer, down, fallback, crypt, codec, aead, udpVoice, teardown, browser>>

\* stopVoiceUplinkPacer
stopVoiceUplinkPacer(p) ==
  [p EXCEPT !.timer = FALSE, !.queue = <<>>, !.enqueuedAt = FALSE]

\* tickVoiceUplinkPacer without the test of session !== sessionRef
tickVoiceUplinkPacerMut(p) ==
  IF p.queue = <<>>
  THEN IF p.timer /\ p.enqueuedAt /\ p.elapsed > VOICE_UPLINK_PACING_IDLE_TIMEOUT_MS
       THEN stopVoiceUplinkPacer(p)
       ELSE p
  ELSE IF Head(p.queue) = "opus"
  THEN [p EXCEPT !.queue = Tail(@), !.sentFrames = @ + 1]
  ELSE stopVoiceUplinkPacer([p EXCEPT !.queue = Tail(@), !.sentEnds = @ + 1])

\* tickVoiceUplinkPacer that leaves the timer running when it finds the queue empty
tickVoiceUplinkPacerNoIdle(p) ==
  IF ~p.live THEN stopVoiceUplinkPacer([p EXCEPT !.staleTicks = @ + 1])
  ELSE IF p.queue = <<>> THEN p
  ELSE IF Head(p.queue) = "opus"
  THEN [p EXCEPT !.queue = Tail(@), !.sentFrames = @ + 1]
  ELSE stopVoiceUplinkPacer([p EXCEPT !.queue = Tail(@), !.sentEnds = @ + 1])

\* tickVoiceUplinkPacer
tickVoiceUplinkPacer(p) ==
  IF ~p.live THEN stopVoiceUplinkPacer([p EXCEPT !.staleTicks = @ + 1])
  ELSE IF p.queue = <<>>
  THEN IF p.timer /\ p.enqueuedAt /\ p.elapsed > VOICE_UPLINK_PACING_IDLE_TIMEOUT_MS
       THEN stopVoiceUplinkPacer(p)
       ELSE p
  ELSE IF Head(p.queue) = "opus"
  THEN [p EXCEPT !.queue = Tail(@), !.sentFrames = @ + 1]
  ELSE stopVoiceUplinkPacer([p EXCEPT !.queue = Tail(@), !.sentEnds = @ + 1])

\* startVoiceUplinkPacer: setInterval, then the first tick at once
startVoiceUplinkPacer(p) ==
  IF p.timer THEN p ELSE tickVoiceUplinkPacer([p EXCEPT !.timer = TRUE])

\* if (pacer.queue.length > MAX) { splice(0, drop); droppedFramesTotal += drop }
capQueue(p) ==
  IF Len(p.queue) > VOICE_UPLINK_PACING_MAX_QUEUE_FRAMES
  THEN LET drop == Len(p.queue) - VOICE_UPLINK_PACING_MAX_QUEUE_FRAMES
       IN [p EXCEPT !.queue = SubSeq(@, drop + 1, Len(@)),
                    !.droppedFramesTotal = @ + drop]
  ELSE p

\* ws.on('message') for a decoded opus frame, pacing enabled
enqueueOpus(p) ==
  startVoiceUplinkPacer(capQueue(
    [p EXCEPT !.enqueuedAt = TRUE, !.elapsed = 0, !.enqueued = @ + 1,
              !.queue = Append(@, "opus")]))

\* the end handler without the loop that removes the end markers already queued
enqueueEndMut(p) ==
  LET p1 == [p EXCEPT !.enqueuedAt = TRUE, !.elapsed = 0]
  IN IF p1.queue = <<>>
     THEN stopVoiceUplinkPacer([p1 EXCEPT !.sentEnds = @ + 1])
     ELSE startVoiceUplinkPacer(capQueue([p1 EXCEPT !.queue = Append(@, "end")]))

\* ws.on('message') for an end marker, pacing enabled
enqueueEnd(p) ==
  LET p1 == [p EXCEPT !.enqueuedAt = TRUE, !.elapsed = 0]
      isOpus(x) == x # "end"
  IN IF p1.queue = <<>>
     THEN stopVoiceUplinkPacer([p1 EXCEPT !.sentEnds = @ + 1])
     ELSE startVoiceUplinkPacer(capQueue(
            [p1 EXCEPT !.queue = Append(SelectSeq(@, isOpus), "end")]))

Init == supInit /\ voiceInit /\ moreInit

Next ==
  \/ \E req \in RequestedIds : Connect(req)
  \/ \E i \in ConnIds : TlsConnected(i)
  \/ \E i \in ConnIds : TlsError(i)
  \/ \E i \in ConnIds : \E m \in HandshakeMsgs : OnMessage(i, m)
  \/ \E i \in ConnIds : Resume(i)
  \/ \E i \in ConnIds : SocketError(i)
  \/ \E i \in ConnIds : SocketClose(i)
  \/ \E i \in ConnIds : HandshakeTimeout(i)
  \/ Disconnect
  \/ WsClose
  \/ JoinChannel
  \/ TextSend
  \/ Ping
  \/ \E data \in BadMessages : BadMessage(data)
  \/ \E t \in ConnIds : MetricsTick(t)

Spec == Init /\ [][Next]_vars

\* The supervisor with a server that also changes its channel/user registry; the
\* peer only connects and disconnects.
NextView ==
  \/ Connect("lan")
  \/ \E i \in ConnIds : TlsConnected(i)
  \/ \E i \in ConnIds : \E m \in {ServerMsg("ServerSync", 7, 0)} \cup RegistryMsgs : OnMessage(i, m)
  \/ \E i \in ConnIds : Resume(i)
  \/ Disconnect

SpecView == Init /\ [][NextView]_vars

-----------------------------------------------------------------------------
(* Outbound voice: MumbleSession.sendOpusFrame / sendOpusEnd *)

\* encodeLegacyOpusPacketFromClient: throws for a payload above 0x1fff bytes, else
\* returns the packet with the sequence number and terminator flag it was given
encodeLegacyOpusPacketFromClient(sequence, size, isLastFrame) ==
  [threw |-> size > MaxOpusBytes, sequence |-> sequence, size |-> size,
   isLastFrame |-> isLastFrame]

\* the transport a packet is handed to: UDP when udpReady and sendPlainPacket
\* returned true, else the TCP tunnel
transport(ready, ok) == IF ready /\ ok THEN "udp" ELSE "tcp"

\* The body shared by sendOpusFrame and sendOpusEnd. The argument object is built
\* first, so this._outSequence++ has run when the encoder is entered.
sendOpus(size, isLastFrame, ok) ==
  LET packet == encodeLegacyOpusPacketFromClient(outSequence, size, isLastFrame)
  IN /\ calls < MaxCalls
     /\ calls' = calls + 1
     /\ outSequence' = outSequence + 1
     /\ packets' = IF packet.threw THEN packets
                   ELSE Append(packets, [sequence |-> packet.sequence, size |-> packet.size,
                                         isLastFrame |-> packet.isLastFrame,
                                         via |-> transport(udpReady, ok)])
     /\ UNCHANGED <<udpReady, recentVoiceFrames, now, advances, bursts, delivered, cleared, vlast>>
     /\ supIdle

sendOpusFrame(size, ok) == sendOpus(size, FALSE, ok)

sendOpusEnd(ok) == sendOpus(0, TRUE, ok)

\* the first valid datagram from the server marks UDP as ready
UdpReady ==
  /\ ~udpReady
  /\ udpReady' = TRUE
  /\ UNCHANGED <<outSequence, calls, packets, recentVoiceFrames, now, advances, bursts,
                 delivered, cleared, vlast>>
  /\ supIdle

NextUplink ==
  \/ \E size \in OpusSizes : \E ok \in BOOLEAN : sendOpusFrame(size, ok)
  \/ \E ok \in BOOLEAN : sendOpusEnd(ok)
  \/ UdpReady

SpecUplink == Init /\ [][NextUplink]_vars

-----------------------------------------------------------------------------
(* Inbound voice: MumbleSession._onTunnelPacket / _emitVoice *)

\* _recentVoiceFrames is kept as the sequence of its entries in insertion order.
\* An entry of a followed key is [key, ts, n = 1]; n frames of other speakers that
\* were recorded one after the other at the same ts, each under its own key, are
\* one entry [Other, ts, n].
RECURSIVE mapSize(_)
mapSize(m) == IF m = <<>> THEN 0 ELSE Head(m).n + mapSize(Tail(m))

\* Map.get: the recorded time, -1 for undefined. A frame of another speaker is new.
get(m, key) ==
  IF key # Other /\ \E j \in DOMAIN m : m[j].key = key
  THEN m[CHOOSE j \in DOMAIN m : m[j].key = key].ts
  ELSE -1

\* Map.set: an existing key keeps its place in the insertion order
set(m, key, t) ==
  IF key # Other /\ \E j \in DOMAIN m : m[j].key = key
  THEN [j \in DOMAIN m |-> IF m[j].key = key THEN [m[j] EXCEPT !.ts = t] ELSE m[j]]
  ELSE IF key = Other /\ m # <<>> /\ m[Len(m)].key = Other /\ m[Len(m)].ts = t
  THEN [m EXCEPT ![Len(m)].n = @ + 1]
  ELSE Append(m, [key |-> key, ts |-> t, n |-> 1])

\* for (const [k, ts] of map) { if (now - ts <= 1500) break; map.delete(k) }
RECURSIVE sweep(_, _)
sweep(m, t) ==
  IF m = <<>> THEN m
  ELSE IF t - Head(m).ts <= StaleMs THEN m
  ELSE sweep(Tail(m), t)

\* _emitVoice with `<=` for `<` in the window test
emitVoiceMut(m, key, t) ==
  LET prev == get(m, key)
      m1 == set(m, key, t)
      m2 == IF mapSize(m1) > SweepSize THEN sweep(m1, t) ELSE m1
      clear == mapSize(m1) > SweepSize /\ mapSize(m2) > ClearSize
  IN IF prev # -1 /\ t - prev <= DedupWindowMs
     THEN [map |-> m, emitted |-> FALSE, cleared |-> FALSE]
     ELSE [map |-> IF clear THEN <<>> ELSE m2, emitted |-> TRUE, cleared |-> clear]

\* _emitVoice: the map afterwards, whether voiceOpus was emitted, whether the map
\* was cleared
emitVoice(m, key, t) ==
  LET prev == get(m, key)
      m1 == set(m, key, t)
      m2 == IF mapSize(m1) > SweepSize THEN sweep(m1, t) ELSE m1
      clear == mapSize(m1) > SweepSize /\ mapSize(m2) > ClearSize
  IN IF prev # -1 /\ t - prev < DedupWindowMs
     THEN [map |-> m, emitted |-> FALSE, cleared |-> FALSE]
     ELSE [map |-> IF clear THEN <<>> ELSE m2, emitted |-> TRUE, cleared |-> clear]

\* what _onTunnelPacket gets from decodeLegacyVoicePacketFromServer
TunnelPackets ==
  {[kind |-> "opus", key |-> k] : k \in VoiceKeys}
  \cup {[kind |-> "ping", key |-> Other], [kind |-> "null", key |-> Other]}

\* A followed frame enters _emitVoice, from the UDP client or from the tunnel.
EmitVoice(key, from) ==
  LET r == emitVoice(recentVoiceFrames, key, now)
  IN /\ recentVoiceFrames' = r.map
     /\ vlast' = [kind |-> from, key |-> key, at |-> now, prev |-> delivered[key],
                  emitted |-> r.emitted, clearedSince |-> cleared[key]]
     /\ delivered' = IF r.emitted THEN [delivered EXCEPT ![key] = now] ELSE delivered
     /\ cleared' = IF r.cleared THEN [k \in VoiceKeys |-> TRUE]
                   ELSE IF r.emitted THEN [cleared EXCEPT ![key] = FALSE]
                   ELSE cleared
     /\ UNCHANGED <<outSequence, udpReady, calls, packets, now, advances, bursts>>
     /\ supIdle

\* the UDP client's voiceOpus listener
UdpVoice(key) == EmitVoice(key, "udp")

\* the TLS client's udpTunnel listener: only a decoded opus packet goes on
TunnelPacket(pkt) ==
  IF pkt.kind = "opus" THEN EmitVoice(pkt.key, "tunnel")
  ELSE /\ vlast' = [NoVoice EXCEPT !.kind = "ignored", !.at = now]
       /\ UNCHANGED <<outSequence, udpReady, calls, packets, recentVoiceFrames, now,
                      advances, bursts, delivered, cleared>>
       /\ supIdle

\* n frames of other speakers pass through _emitVoice one after the other at time
\* t, starting from r = [map, cleared]
RECURSIVE emitOthers(_, _, _)
emitOthers(r, n, t) ==
  IF n = 0 THEN r
  ELSE IF n = 1
  THEN LET e == emitVoice(r.map, Other, t)
       IN [map |-> e.map, cleared |-> r.cleared \/ e.cleared]
  ELSE LET half == emitOthers(r, n \div 2, t)
       IN IF half.cleared \/ mapSize(half.map) > 0
          THEN emitOthers(half, n - n \div 2, t)
          ELSE half

\* One chunk read from the TLS socket carries BurstLen tunnelled frames of other
\* speakers; _onData hands them to _emitVoice in order within the same millisecond.
TunnelBurst ==
  LET r == emitOthers([map |-> recentVoiceFrames, cleared |-> FALSE], BurstLen, now)
  IN /\ bursts < MaxBursts
     /\ bursts' = bursts + 1
     /\ recentVoiceFrames' = r.map
     /\ cleared' = IF r.cleared THEN [k \in VoiceKeys |-> TRUE] ELSE cleared
     /\ vlast' = [NoVoice EXCEPT !.kind = "burst", !.at = now]
     /\ UNCHANGED <<outSequence, udpReady, calls, packets, now, advances, delivered>>
     /\ supIdle

\* Date.now() moves on between two events
Advance(d) ==
  /\ advances < MaxAdvances
  /\ advances' = advances + 1
  /\ now' = now + d
  /\ vlast' = NoVoice
  /\ UNCHANGED <<outSequence, udpReady, calls, packets, recentVoiceFrames, bursts,
                 delivered, cleared>>
  /\ supIdle

NextDedup ==
  \/ \E k \in VoiceKeys : UdpVoice(k)
  \/ \E pkt \in TunnelPackets : TunnelPacket(pkt)
  \/ TunnelBurst
  \/ \E d \in AdvanceSteps : Advance(d)

SpecDedup == Init /\ [][NextDedup]_vars

-----------------------------------------------------------------------------
(* The uplink pacer: arrivals, ticks, the TLS send buffer *)

\* the uplink message is counted; a message after a burst is remembered
arrive(p) ==
  [p EXCEPT !.arrived = @ + 1, !.sinceBurst = @ + (IF p.bursts > 0 THEN 1 ELSE 0)]

\* a 0x12 frame arrives from the peer
UplinkOpus ==
  /\ pacer.live
  /\ pacer.arrived < MaxUplink
  /\ pacer' = enqueueOpus(arrive(pacer))
  /\ pacerIdle

\* a 0x03 frame arrives from the peer
UplinkEnd ==
  /\ pacer.live
  /\ pacer.arrived < MaxUplink
  /\ pacer' = enqueueEnd(arrive(pacer))
  /\ pacerIdle

RECURSIVE enqueueFrames(_, _)
enqueueFrames(p, n) ==
  IF n = 0 THEN p
  ELSE LET q == enqueueOpus(p)
       IN IF q.enqueued > p.enqueued THEN enqueueFrames(q, n - 1) ELSE q

\* BurstFrames 0x12 frames arrive before the next tick of the pacer
UplinkBurst ==
  /\ pacer.live
  /\ pacer.bursts < MaxUplinkBursts
  /\ pacer' = enqueueFrames(
                [pacer EXCEPT !.bursts = @ + 1, !.burstCongested = pacer.congested,
                              !.sentAtBurst = pacer.sentFrames + pacer.sentEnds,
                              !.droppedAtBurst = pacer.droppedFramesTotal,
                              !.sinceBurst = 0],
                BurstFrames)
  /\ pacerIdle

\* the interval timer fires, VOICE_UPLINK_PACING_INTERVAL_MS after the last time
PacerTick ==
  /\ pacer.timer
  /\ pacer' = tickVoiceUplinkPacer(
                [pacer EXCEPT !.elapsed =
                   IF @ > VOICE_UPLINK_PACING_IDLE_TIMEOUT_MS THEN @
                   ELSE @ + VOICE_UPLINK_PACING_INTERVAL_MS])
  /\ pacerIdle

\* the Mumble server stops reading: the TLS send buffer fills up and stays full
TlsCongest ==
  /\ pacer.live
  /\ ~pacer.congested
  /\ pacer.bursts = 0
  /\ pacer' = [pacer EXCEPT !.congested = TRUE]
  /\ pacerIdle

\* the server reads again: everything written so far reaches it
TlsDrain ==
  /\ pacer.congested
  /\ pacer' = [pacer EXCEPT !.congested = FALSE]
  /\ pacerIdle

\* cleanup() of the supervisor: the pacer is stopped and session becomes null
PacerCleanup ==
  /\ pacer.live
  /\ pacer' = [stopVoiceUplinkPacer(pacer) EXCEPT
                 !.live = FALSE, !.sentAtEnd = pacer.sentFrames + pacer.sentEnds]
  /\ pacerIdle

\* `session = {...}` of a connect that was in flight when this session was
\* installed: another session becomes the current one and this one is not cleaned up
PacerReplaced ==
  /\ pacer.live
  /\ pacer' = [pacer EXCEPT !.live = FALSE, !.sentAtEnd = pacer.sentFrames + pacer.sentEnds]
  /\ pacerIdle

NextPacer ==
  \/ UplinkOpus
  \/ UplinkEnd
  \/ UplinkBurst
  \/ PacerTick
  \/ TlsCongest
  \/ TlsDrain
  \/ PacerCleanup
  \/ PacerReplaced

SpecPacer == Init /\ [][NextPacer]_vars

-----------------------------------------------------------------------------
(* Downlink: the voiceOpus forwarder and sendJson *)

downLast(d, kind, wsSent) ==
  [kind |-> kind, open |-> d.open, buffered |-> d.bufferedAmount, sent |-> wsSent,
   frames |-> d.voiceDownlinkFrames, dropped |-> d.voiceDownlinkDroppedFrames]

\* the forwarder with `>=` for `>` in the bufferedAmount test
onVoiceOpusMut(d) ==
  IF ~d.open THEN [d EXCEPT !.last = downLast(d, "voice", FALSE)]
  ELSE IF d.bufferedAmount >= DOWNLINK_DROP_BYTES
  THEN [d EXCEPT !.voiceDownlinkDroppedFrames = @ + 1, !.last = downLast(d, "voice", FALSE)]
  ELSE [d EXCEPT !.voiceDownlinkFrames = @ + 1, !.last = downLast(d, "voice", TRUE)]

\* client.events.on('voiceOpus', ...) of attachMumbleEventForwarders
onVoiceOpus(d) ==
  IF ~d.open THEN [d EXCEPT !.last = downLast(d, "voice", FALSE)]
  ELSE IF d.bufferedAmount > DOWNLINK_DROP_BYTES
  THEN [d EXCEPT !.voiceDownlinkDroppedFrames = @ + 1, !.last = downLast(d, "voice", FALSE)]
  ELSE [d EXCEPT !.voiceDownlinkFrames = @ + 1, !.last = downLast(d, "voice", TRUE)]

\* sendJson(ws, msg): only the socket's state decides
sendJson(d) == [d EXCEPT !.last = downLast(d, "json", d.open)]

\* the session emits voiceOpus
DownlinkVoice ==
  /\ down.events < MaxDownlink
  /\ down' = [onVoiceOpus(down) EXCEPT !.events = @ + 1]
  /\ downIdle

\* a control event of the session is forwarded, or a reply is sent
DownlinkControl ==
  /\ down' = sendJson(down)
  /\ downIdle

\* the peer reads slower or faster: ws.bufferedAmount changes
WsBuffered(b) ==
  /\ down.open
  /\ b # down.bufferedAmount
  /\ down' = [down EXCEPT !.bufferedAmount = b, !.last = NoDown]
  /\ downIdle

\* the peer's WebSocket leaves the OPEN state
WsNotOpen ==
  /\ down.open
  /\ down' = [down EXCEPT !.open = FALSE, !.last = NoDown]
  /\ downIdle

NextDownlink ==
  \/ DownlinkVoice
  \/ DownlinkControl
  \/ \E b \in BufferedAmounts : WsBuffered(b)
  \/ WsNotOpen

SpecDownlink == Init /\ [][NextDownlink]_vars

-----------------------------------------------------------------------------
(* The UDP voice client of one session and the TCP fallback timer *)

\* MumbleUdpVoiceClient.canSend
canSend(f) == f.stage = "session" /\ f.init

\* MumbleTcpClient on a CryptSetup message: the fields received are kept in
\* tcp.cryptSetup before 'cryptSetup' is emitted
keepCryptSetup(f) == [f EXCEPT !.cryptSetup = TRUE]

\* _onCryptSetup with a full triple of the right lengths: setKey succeeds
onCryptSetup(f) == IF f.stage = "session" THEN [f EXCEPT !.init = TRUE] ELSE f

\* the server sends CryptSetup with key, client nonce and server nonce
CryptSetupFull ==
  /\ fallback.stage # "closed"
  /\ fallback.setups < MaxCryptSetups
  /\ fallback' = [onCryptSetup(keepCryptSetup(fallback)) EXCEPT !.setups = @ + 1]
  /\ fallbackIdle

\* _onCryptSetup with a server nonce only: setDecryptIV and resync += 1
CryptSetupResync ==
  /\ fallback.stage = "session"
  /\ fallback.setups < MaxCryptSetups
  /\ fallback' = [fallback EXCEPT !.resync = @ + 1, !.setups = @ + 1]
  /\ fallbackIdle

\* new MumbleSession after ServerSync: the UDP client applies the CryptSetup the
\* TCP client already holds, and the timer is armed if the UDP client can send
NewMumbleSession ==
  /\ fallback.stage = "handshake"
  /\ LET f == [fallback EXCEPT !.stage = "session", !.init = fallback.cryptSetup]
     IN fallback' = [f EXCEPT !.timer = canSend(f)]
  /\ fallbackIdle

\* _onUdpMessage: decrypted says whether decrypt and decode succeeded
UdpMessage(decrypted) ==
  /\ fallback.stage = "session"
  /\ fallback.datagrams < MaxDatagrams
  /\ fallback' =
       IF fallback.init /\ decrypted
       THEN [fallback EXCEPT !.udpReady = TRUE, !.timer = FALSE, !.datagrams = @ + 1]
       ELSE [fallback EXCEPT !.datagrams = @ + 1]
  /\ fallbackIdle

\* the 2.5 s timeout fires
FallbackTimer ==
  /\ fallback.timer
  /\ fallback' = [fallback EXCEPT !.timer = FALSE,
                                  !.pings = IF fallback.udpReady THEN @ ELSE @ + 1]
  /\ fallbackIdle

\* MumbleSession.close
SessionClose ==
  /\ fallback.stage = "session"
  /\ fallback' = [fallback EXCEPT !.stage = "closed", !.timer = FALSE]
  /\ fallbackIdle

NextFallback ==
  \/ CryptSetupFull
  \/ CryptSetupResync
  \/ NewMumbleSession
  \/ \E decrypted \in BOOLEAN : UdpMessage(decrypted)
  \/ FallbackTimer
  \/ SessionClose

SpecFallback == Init /\ [][NextFallback]_vars

-----------------------------------------------------------------------------
(* Datagrams from an encrypting to a decrypting CryptStateOCB2 *)

\* CryptSetup with the full triple: both ends install the key, the sender's
\* encrypt IV and the receiver's decrypt IV being the server nonce
CryptInstall(serverNonce) ==
  /\ ~crypt.rx.init
  /\ crypt' = [crypt EXCEPT
                 !.tx = setKey(@, CryptKey, serverNonce, zeroBlock),
                 !.rx = setKey(@, CryptKey, zeroBlock, serverNonce),
                 !.try = NoTry]
  /\ cryptIdle

\* the sender encrypts a datagram that reaches the network
CryptSend ==
  /\ crypt.tx.init
  /\ Len(crypt.out) < MaxPackets
  /\ \E e \in {encrypt(crypt.tx, <<32, crypt.encrypts % 256>>)} :
       crypt' = [crypt EXCEPT
                    !.tx = e.cs,
                    !.encrypts = @ + 1,
                    !.out = Append(@, [source |-> e.out, iv |-> e.cs.encryptIv,
                                       seq |-> crypt.encrypts + 1]),
                    !.accepts = Append(@, 0),
                    !.try = NoTry]
  /\ cryptIdle

\* the encrypt IV after n more datagrams
RECURSIVE increaseTimes(_, _)
increaseTimes(iv, n) ==
  IF n = 0 THEN iv
  ELSE IF n = 1 THEN increaseFrom(iv, 1)
  ELSE LET half == increaseTimes(iv, n \div 2)
       IN IF half[1] >= 0 THEN increaseTimes(half, n - (n \div 2)) ELSE half

\* the sender encrypts n datagrams that the network loses
CryptLose(n) ==
  /\ crypt.tx.init
  /\ crypt.runs < MaxLossRuns
  /\ crypt' = [crypt EXCEPT
                 !.tx.encryptIv = increaseTimes(@, n),
                 !.encrypts = @ + n,
                 !.runs = @ + 1,
                 !.try = NoTry]
  /\ cryptIdle

\* datagram i is handed to the receiver's decrypt
CryptReceive(i) ==
  /\ i <= Len(crypt.out)
  /\ crypt.tries < MaxTries
  /\ \E d \in {decrypt(crypt.rx, crypt.out[i].source)} :
     LET p == crypt.out[i]
         missing == p.seq - crypt.lastSeq - 1
     IN crypt' = [crypt EXCEPT
                    !.rx = d.cs,
                    !.tries = @ + 1,
                    !.accepts[i] = IF d.ok THEN @ + 1 ELSE @,
                    !.orderly = @ /\ p.seq > crypt.lastSeq /\ missing < 128,
                    !.lastSeq = p.seq,
                    !.skipped = @ + (IF missing > 0 THEN missing ELSE 0),
                    !.try = [kind |-> "sent", idx |-> i, ok |-> d.ok,
                             again |-> crypt.accepts[i] > 0, plain |-> d.plain,
                             source |-> p.source, before |-> crypt.rx]]
  /\ cryptIdle

\* the ways a datagram is damaged before it reaches decrypt: cut to its first
\* three bytes, one tag bit flipped, or its IV byte moved 56 behind the
\* receiver's
ForgedKinds == {"short", "tag", "window"}

forged(source, kind, decryptIv) ==
  CASE kind = "short" -> SubSeq(source, 1, 3)
    [] kind = "tag" -> [source EXCEPT ![2] = xor(@, 1)]
    [] OTHER -> [source EXCEPT ![1] = (decryptIv[1] + 200) % 256]

\* datagram i reaches the receiver's decrypt damaged
CryptReceiveForged(i, kind) ==
  /\ i <= Len(crypt.out)
  /\ crypt.forgeries < MaxForgeries
  /\ \E source \in {forged(crypt.out[i].source, kind, crypt.rx.decryptIv)} :
     \E d \in {decrypt(crypt.rx, source)} :
       crypt' = [crypt EXCEPT
                    !.rx = d.cs,
                    !.forgeries = @ + 1,
                    !.try = [kind |-> kind, idx |-> 0, ok |-> d.ok, again |-> FALSE,
                             plain |-> d.plain, source |-> source, before |-> crypt.rx]]
  /\ cryptIdle

\* a datagram reaches decrypt before any key is installed
CryptReceiveUnkeyed(bytes) ==
  /\ ~crypt.rx.init
  /\ crypt.forgeries < MaxForgeries
  /\ \E d \in {decrypt(crypt.rx, bytes)} :
       crypt' = [crypt EXCEPT
                    !.rx = d.cs,
                    !.forgeries = @ + 1,
                    !.try = [kind |-> "unkeyed", idx |-> 0, ok |-> d.ok, again |-> FALSE,
                             plain |-> d.plain, source |-> bytes, before |-> crypt.rx]]
  /\ cryptIdle

NextCrypt ==
  \/ \E serverNonce \in ServerNonces : CryptInstall(serverNonce)
  \/ CryptSend
  \/ \E n \in LossRuns : CryptLose(n)
  \/ \E i \in 1..MaxPackets : CryptReceive(i)

SpecCrypt == Init /\ [][NextCrypt]_vars

\* a network that damages and reorders datagrams but loses none
NextReject ==
  \/ \E serverNonce \in ServerNonces : CryptInstall(serverNonce)
  \/ \E bytes \in StrayDatagrams : CryptReceiveUnkeyed(bytes)
  \/ CryptSend
  \/ \E i \in 1..MaxPackets : CryptReceive(i)
  \/ \E i \in 1..MaxPackets, kind \in ForgedKinds : CryptReceiveForged(i, kind)

SpecReject == Init /\ [][NextReject]_vars

-----------------------------------------------------------------------------
(* Writing and reading back varints and voice packets *)

\* writeMumbleVarint(value), then readMumbleVarint of the bytes at offset 0
VarintRoundTrip(value) ==
  /\ codec.op = "none"
  /\ codec' = [NoCodec EXCEPT !.op = "varint", !.value = value,
                 !.buf = writeMumbleVarint(value),
                 !.read = readMumbleVarint(writeMumbleVarint(value), 0)]
  /\ codecIdle

\* encodeLegacyOpusPacketFromClient, then decodeLegacyVoicePacketFromServer
PacketRoundTrip(target, sequence, size, isLastFrame) ==
  /\ codec.op = "none"
  /\ LET buf == encodeLegacyOpusPacket(target, BigInt(sequence), OpusData(size), isLastFrame)
     IN codec' = [NoCodec EXCEPT
                    !.op = "packet",
                    !.params = [target |-> target, sequence |-> sequence, size |-> size,
                                isLastFrame |-> isLastFrame],
                    !.decoded = decodeLegacyVoicePacketFromServer(buf)]
  /\ codecIdle

NextCodec ==
  \/ \E value \in VarintValues : VarintRoundTrip(value)
  \/ \E target \in PacketTargets, sequence \in PacketSequences, size \in PacketSizes,
        isLastFrame \in BOOLEAN : PacketRoundTrip(target, sequence, size, isLastFrame)

SpecCodec == Init /\ [][NextCodec]_vars

-----------------------------------------------------------------------------
(* One datagram encrypted by one CryptStateOCB2 and decrypted by its peer *)

\* the datagram encrypt returns for plain, the sender keyed with key and iv
sealed(key, iv, plain) == encrypt(setKey(NewCryptState, key, iv, zeroBlock), plain)

\* what decrypt returns for source, the receiver keyed with key and the same iv
opened(key, iv, source) == decrypt(setKey(NewCryptState, key, zeroBlock, iv), source)

\* source with one bit of one byte flipped
flip(source, byte, bit) ==
  [source EXCEPT ![IF byte = 0 THEN Len(source) ELSE byte] = xor(@, bit)]

\* encrypt, then decrypt by the peer
AeadRoundTrip(key, iv, plain) ==
  /\ aead.op = "none"
  /\ \E e \in {sealed(key, iv, plain)} :
     \E d \in {opened(key, iv, e.out)} :
       aead' = [op |-> "roundtrip", key |-> key, iv |-> iv, plain |-> plain,
                source |-> e.out, sent |-> e.ok, ok |-> d.ok, out |-> d.plain]
  /\ aeadIdle

\* encrypt, one bit of the datagram flipped on the way, then decrypt by the peer
AeadFlipped(key, iv, plain, byte, bit) ==
  /\ aead.op = "none"
  /\ \E e \in {sealed(key, iv, plain)} :
     \E source \in {IF e.ok THEN flip(e.out, byte, bit) ELSE e.out} :
     \E d \in {opened(key, iv, source)} :
       aead' = [op |-> "flipped", key |-> key, iv |-> iv, plain |-> plain,
                source |-> source, sent |-> e.ok, ok |-> d.ok, out |-> d.plain]
  /\ aeadIdle

NextAead ==
  \/ \E key \in AeadKeys, iv \in AeadIvs, plain \in AeadPlains : AeadRoundTrip(key, iv, plain)
  \/ \E key \in AeadKeys, iv \in AeadIvs, plain \in AeadPlains, byte \in FlipBytes,
        bit \in FlipBits : AeadFlipped(key, iv, plain, byte, bit)

SpecAead == Init /\ [][NextAead]_vars

-----------------------------------------------------------------------------
(* Claims about the supervisor *)

\* C3: a connect that was awaiting connectMumbleServer when a peer 'disconnect' or
\* the WebSocket close ran cleanup() is a no-op when its await resolves: it is not
\* installed as the session, gets no relay, forwarders or metrics timer, and
\* sends the peer nothing.
C3_CancelledConnectIsNoOp ==
  \A i \in ConnIds :
    conns[i].cancelled =>
      /\ session # i
      /\ ~conns[i].fwd
      /\ metricsInterval # i
      /\ i \notin liveTimers
      /\ (last.op = "resume" /\ last.conn = i /\ last.kind = "resolved") => sent = <<>>

\* C4: every Mumble session created for the peer other than the current one has
\* been closed and has no forwarders and no metrics timer.
C4_AtMostOneOpenSession ==
  \A i \in ConnIds :
    (conns[i].phase = "done" /\ i # session) =>
      /\ conns[i].closed
      /\ ~conns[i].fwd
      /\ i \notin liveTimers

\* C5: when the socket of the current session closes (its terminal 'disconnected'
\* event), the peer gets 'disconnected'/'mumble_disconnect' and the supervisor
\* tears the session down: session is null, the metrics timer is cleared and the
\* forwarders are gone.
C5_TerminalDisconnectTearsDown ==
  (last.op = "socketClose" /\ last.before # 0 /\ last.conn = last.before) =>
    /\ sent = << Msg("disconnected", "mumble_disconnect", last.conn) >>
    /\ session = 0
    /\ metricsInterval = 0
    /\ liveTimers = {}
    /\ ~conns[last.conn].fwd

\* C6: handling a peer 'disconnect' sends exactly one message, 'disconnected' with
\* reason 'client_disconnect', and no event of a session that cleanup() has torn
\* down is ever forwarded to the peer.
C6_ClientDisconnectOnly ==
  /\ last.op = "disconnect" => sent = << Msg("disconnected", "client_disconnect", 0) >>
  /\ \A k \in DOMAIN sent : sent[k].from \notin retired

\* the socket of a torn-down session closes while the peer is still connected
C6_Witness ==
  /\ last.op = "socketClose"
  /\ last.conn \in retired
  /\ wsOpen
  /\ sent = <<>>

\* C7: a joinChannel or textSend handled while session is null is answered with
\* exactly one error 'not_connected', writes nothing to any Mumble server and
\* leaves session null.
C7_NotConnectedReply ==
  (last.op \in {"joinChannel", "textSend"} /\ last.before = 0) =>
    /\ sent = << sendError("not_connected", 0) >>
    /\ wire = <<>>
    /\ session = 0

\* a textSend answered while a connect is still awaiting ServerSync
C7_Witness ==
  /\ last.op = "textSend"
  /\ last.before = 0
  /\ \E i \in ConnIds : conns[i].phase = "sync"
  /\ sent = << sendError("not_connected", 0) >>

WhitelistIds == {servers[k].id : k \in DOMAIN servers}

\* C8: a connect with an unknown serverId sends exactly one error 'unknown_server',
\* opens no connection and leaves session null; every connection opened (TLS and
\* UDP) goes to the host and port of a whitelist entry with the requested id.
C8_WhitelistOnly ==
  /\ (last.op = "connect" /\ last.req \notin WhitelistIds) =>
       /\ sent = << sendError("unknown_server", 0) >>
       /\ wire = <<>>
       /\ session = 0
  /\ \A i \in ConnIds :
       conns[i].phase # "unused" =>
         \E k \in DOMAIN servers :
           /\ servers[k].id = conns[i].req
           /\ conns[i].host = servers[k].host /\ conns[i].port = servers[k].port
           /\ conns[i].udpHost \in {"", servers[k].host}
           /\ conns[i].udpPort \in {0, servers[k].port}

\* an unknown serverId arrives while a session is installed to a whitelisted server
C8_Witness ==
  /\ last.op = "connect"
  /\ last.req = "nope"
  /\ last.before # 0
  /\ conns[last.before].udpHost = "h2"
  /\ sent = << sendError("unknown_server", 0) >>

\* C9: every inbound message that is neither a voice uplink frame nor JSON with a
\* recognised type is answered with exactly one error 'bad_request', and the
\* handler ends normally with the session unchanged.
C9_BadRequestAnswered ==
  last.op = "badMessage" =>
    /\ sent = << sendError("bad_request", 0) >>
    /\ ~last.threw
    /\ session = last.before

\* C10: a resolved connect sends 'connected' then one 'stateSnapshot', and from then
\* on the registry the peer has built from the snapshot and the later upserts and
\* removes equals the registry of the current session's TLS client.
C10_PeerViewComplete ==
  /\ (last.op = "resume" /\ last.kind = "resolved" /\ wsOpen) =>
       /\ Len(sent) = 2
       /\ sent[1].type = "connected"
       /\ sent[2].type = "stateSnapshot"
  /\ (wsOpen /\ session # 0 /\ Quiet) =>
       /\ peer.channels = conns[session].channels
       /\ peer.users = conns[session].users

-----------------------------------------------------------------------------
(* Claims about the voice paths *)

\* C1: after any number of sendOpusFrame / sendOpusEnd calls, every call has handed
\* one packet to a transport, the packets carry the sequence numbers 0, 1, 2, ...
\* in call order, and the counter has advanced once per packet handed over.
C1_SequenceDense ==
  /\ Len(packets) = calls
  /\ \A k \in DOMAIN packets : packets[k].sequence = k - 1
  /\ outSequence = Len(packets)

\* C2 as stated: a copy of a frame arriving less than 1000 ms after the copy that
\* was delivered is not emitted, whatever arrived in between; a copy arriving
\* 1000 ms or more after it is emitted again.
C2_DedupWhateverArrives ==
  (vlast.kind \in {"udp", "tunnel"} /\ vlast.prev >= 0) =>
    /\ vlast.at - vlast.prev < DedupWindowMs => ~vlast.emitted
    /\ vlast.at - vlast.prev >= DedupWindowMs => vlast.emitted

\* C2: a copy of a frame arriving less than 1000 ms after the copy that was
\* delivered is not emitted, unless the map was cleared (more than 4096 keys
\* recorded) since that copy was recorded; a copy arriving 1000 ms or more after
\* the delivered copy is emitted again.
C2_DedupUnlessCleared ==
  (vlast.kind \in {"udp", "tunnel"} /\ vlast.prev >= 0) =>
    /\ (vlast.at - vlast.prev < DedupWindowMs /\ ~vlast.clearedSince) => ~vlast.emitted
    /\ vlast.at - vlast.prev >= DedupWindowMs => vlast.emitted

\* the tunnelled copy of a frame delivered over UDP less than 1000 ms earlier is
\* dropped although more than 2048 other frames were recorded in between
C2_Witness ==
  /\ vlast.kind = "tunnel"
  /\ vlast.prev >= 0
  /\ vlast.at > vlast.prev
  /\ vlast.at - vlast.prev < DedupWindowMs
  /\ ~vlast.emitted
  /\ mapSize(recentVoiceFrames) > SweepSize

-----------------------------------------------------------------------------
(* Claims about the handshake *)

Settled == {"resolved", "rejected", "done", "failed"}

\* C11: connectMumbleServer settles once. The promise resolves only in the step in
\* which ServerSync is the first settling event, and rejects only in the step in
\* which reject, error, disconnected or the timeout is; once settled, no event and
\* no timeout changes the outcome: a resolved connect can only be installed, a
\* rejected one can only be reported as failed.
C11_SettlesOnce ==
  [][\A i \in ConnIds :
       /\ (conns[i].phase = "sync" /\ conns'[i].phase = "resolved") =>
            (last'.op = "onMessage" /\ last'.conn = i /\ last'.kind = "serverSync")
       /\ (conns[i].phase = "sync" /\ conns'[i].phase = "rejected") =>
            (last'.conn = i /\ last'.kind \in {"reject", "error", "disconnected", "timeout"})
       /\ (conns[i].phase = "sync" /\ last'.conn = i /\ last'.kind = "serverSync") =>
            conns'[i].phase = "resolved"
       /\ conns[i].phase = "resolved" => conns'[i].phase \in {"resolved", "done"}
       /\ conns[i].phase = "rejected" => conns'[i].phase \in {"rejected", "failed"}
       /\ conns[i].phase = "done" => conns'[i].phase = "done"
       /\ conns[i].phase = "failed" => conns'[i].phase = "failed"
       /\ conns[i].phase \in Settled => ~(last'.conn = i /\ last'.kind \in Settling \cup {"timeout"})
    ]_vars

\* the server's Reject arrives in the chunk that carried ServerSync: the connect
\* stays resolved although the client has emitted 'reject' and closed
C11_Witness ==
  /\ last.op = "onMessage"
  /\ last.kind = ""
  /\ conns[last.conn].phase = "resolved"
  /\ conns[last.conn].closed

-----------------------------------------------------------------------------
(* Claims about the uplink pacer *)

\* C12: when a burst of 30 opus frames was enqueued within one pacer interval while
\* the TLS send buffer was held full, and nothing else arrived since, then once the
\* buffer has drained the Mumble server has been sent at most 2 packets since the
\* burst began and droppedFramesTotal has grown by at least 28.
C12_CongestionKeepsLatest ==
  (pacer.bursts > 0 /\ pacer.burstCongested /\ pacer.sinceBurst = 0 /\ pacer.live
     /\ ~pacer.congested) =>
    /\ pacer.sentFrames + pacer.sentEnds - pacer.sentAtBurst <= 2
    /\ pacer.droppedFramesTotal - pacer.droppedAtBurst >= BurstFrames - 2

\* C13: while the session is alive, whenever the pacer queue is empty every opus
\* frame that was pushed on it has been passed to sendOpusFrame or counted in
\* droppedFramesTotal.
C13_FramesConserved ==
  (pacer.live /\ pacer.queue = <<>>) =>
    pacer.enqueued = pacer.sentFrames + pacer.droppedFramesTotal

-----------------------------------------------------------------------------
(* Claims about the downlink *)

\* C14: a voiceOpus event handled while the WebSocket is open is either sent, with
\* voiceDownlinkFrames one higher and nothing counted as dropped, or - exactly
\* when bufferedAmount is above 2,000,000 - not sent, with
\* voiceDownlinkDroppedFrames one higher; a control message is sent whenever the
\* WebSocket is open, whatever bufferedAmount is; and the two counters add up to
\* the voiceOpus events handled while open.
C14_SentOrCountedDropped ==
  LET l == down.last
      frames == down.voiceDownlinkFrames - l.frames
      dropped == down.voiceDownlinkDroppedFrames - l.dropped
  IN /\ (l.kind = "voice" /\ l.open) =>
          IF l.buffered > DOWNLINK_DROP_BYTES
          THEN ~l.sent /\ frames = 0 /\ dropped = 1
          ELSE l.sent /\ frames = 1 /\ dropped = 0
     /\ (l.kind = "json" /\ l.open) =>
          (l.sent /\ frames = 0 /\ dropped = 0)
     /\ down.open =>
          down.voiceDownlinkFrames + down.voiceDownlinkDroppedFrames = down.events

\* a control message goes out over a socket so full that a voice frame was dropped
C14_Witness ==
  /\ down.last.kind = "json"
  /\ down.last.sent
  /\ down.last.buffered > DOWNLINK_DROP_BYTES
  /\ down.voiceDownlinkDroppedFrames > 0
  /\ down.voiceDownlinkFrames > 0

-----------------------------------------------------------------------------
(* Claims about the UDP fallback *)

\* C15: while a session that holds the crypt triple is open, has not decrypted a
\* UDP datagram and has not yet sent the tunnelled ping, the fallback timer is
\* pending (so that the ping is sent when 2.5 s have passed); and no more than
\* one such ping is ever sent.
C15_FallbackPending ==
  /\ fallback.pings <= 1
  /\ (fallback.stage = "session" /\ fallback.init /\ ~fallback.udpReady
        /\ fallback.pings = 0) => fallback.timer

-----------------------------------------------------------------------------
(* Claims about CryptStateOCB2 *)

\* C16: whatever the order in which datagrams reach decrypt (in order, late,
\* after losses, across a wrap of IV byte 0), no datagram is accepted twice.
C16_NoReplayAccepted ==
  /\ \A i \in 1..Len(crypt.out) : crypt.accepts[i] <= 1
  /\ crypt.try.again => ~crypt.try.ok

\* a datagram that was accepted is presented again after a late datagram was
\* accepted, and is turned down
C16_Witness ==
  /\ crypt.try.again
  /\ ~crypt.try.ok
  /\ crypt.rx.statsLocal.late > 0

\* C17: as long as the datagrams reach decrypt in the order sent, with fewer
\* than 128 missing in a row, the one handed over last was accepted, the
\* receiver's decryptIv is the IV it was encrypted under, and statsLocal.lost
\* counts the datagrams that were missing.
C17_OrderlyAccepted ==
  (crypt.orderly /\ crypt.try.idx > 0) =>
    /\ crypt.try.ok
    /\ crypt.rx.decryptIv = crypt.out[crypt.try.idx].iv
    /\ crypt.rx.statsLocal.lost = crypt.skipped

\* C34: a decrypt call that returns null, whatever made it give up (no key, a
\* datagram shorter than four bytes, an IV byte outside the window, a hit in
\* the replay history, a tag that does not match), leaves decryptIv and
\* decryptHistory as they were before the call.
C34_RejectLeavesIv ==
  (crypt.try.kind # "none" /\ ~crypt.try.ok) =>
    /\ crypt.rx.decryptIv = crypt.try.before.decryptIv
    /\ crypt.rx.decryptHistory = crypt.try.before.decryptHistory

\* a datagram whose IV byte wrapped, so that decrypt carried into the higher
\* bytes of decryptIv, was turned down for its tag
C34_Witness ==
  /\ crypt.try.kind = "tag"
  /\ ~crypt.try.ok
  /\ crypt.try.source[1] < crypt.try.before.decryptIv[1]
  /\ decryptIvFor(crypt.try.before.decryptIv, crypt.try.source[1]).iv[2]
       # crypt.try.before.decryptIv[2]

\* C35: a datagram that decrypt accepts although its IV byte is 1 to 29 behind
\* decryptIv[0], counted modulo 256, leaves decryptIv as it was, records the
\* first two bytes of the datagram's IV in decryptHistory, and adds one to
\* statsLocal.good and one to statsLocal.late; and no counter is ever negative.
C35_LateAccepted ==
  LET t == crypt.try
      rx == crypt.rx
  IN /\ \A name \in {"good", "late", "lost", "resync"} : rx.statsLocal[name] >= 0
     /\ (t.kind = "sent" /\ t.ok /\ (t.before.decryptIv[1] - t.source[1]) % 256 \in 1..29) =>
          /\ rx.decryptIv = t.before.decryptIv
          /\ rx.decryptHistory =
               [t.before.decryptHistory EXCEPT ![crypt.out[t.idx].iv[1]] = crypt.out[t.idx].iv[2]]
          /\ rx.statsLocal.good = t.before.statsLocal.good + 1
          /\ rx.statsLocal.late = t.before.statsLocal.late + 1

\* a late datagram from before the wrap of IV byte 0 was accepted
C35_Witness ==
  /\ crypt.try.kind = "sent"
  /\ crypt.try.ok
  /\ (crypt.try.before.decryptIv[1] - crypt.try.source[1]) % 256 \in 1..29
  /\ crypt.try.source[1] > crypt.try.before.decryptIv[1]

-----------------------------------------------------------------------------
(* Claims about the voice codec *)

\* the number of bits of a bigint
RECURSIVE bitLength(_)
bitLength(n) == IF n = 0 THEN 0 ELSE 1 + bitLength(n \div 2)

bigBitLength(i) ==
  IF i = BigInt(0) THEN 0
  ELSE LET at == CHOOSE k \in 1..8 : i[k] # 0 /\ \A m \in 1..(k - 1) : i[m] = 0
       IN 8 * (8 - at) + bitLength(i[at])

\* the shortest of the positive forms that holds a value: 7, 14, 21, 28, 32 or
\* 64 bits in 1, 2, 3, 4, 5 or 9 bytes
ShortestForm(i) ==
  LET bits == bigBitLength(i)
  IN IF bits <= 7 THEN 1 ELSE IF bits <= 14 THEN 2 ELSE IF bits <= 21 THEN 3
     ELSE IF bits <= 28 THEN 4 ELSE IF bits <= 32 THEN 5 ELSE 9

\* C18: reading back at offset 0 what writeMumbleVarint wrote for a value below
\* 2^64 returns that value and the length of the encoding as the offset, and the
\* encoding is the shortest positive form that holds the value.
C18_VarintRoundTrip ==
  codec.op = "varint" =>
    /\ ~codec.read.threw
    /\ ~codec.read.inverted
    /\ codec.read.value = codec.value
    /\ codec.read.offset = Len(codec.buf)
    /\ Len(codec.buf) = ShortestForm(codec.value)

\* a value that needs the nine-byte form came back
C18_Witness ==
  /\ codec.op = "varint"
  /\ codec.value[1] = 255
  /\ Len(codec.buf) = 9
  /\ codec.read.value = codec.value

\* C19: decoding the packet encodeLegacyOpusPacketFromClient produced for a
\* target in 0..31, a sequence below 2^30, a payload of at most 0x1fff bytes and
\* either terminator flag returns the same target, sequence, flag and payload.
C19_PacketRoundTrip ==
  codec.op = "packet" =>
    /\ codec.decoded.kind = "opus"
    /\ codec.decoded.target = codec.params.target
    /\ codec.decoded.sequence.value = BigInt(codec.params.sequence)
    /\ ~codec.decoded.sequence.inverted
    /\ codec.decoded.isLastFrame = codec.params.isLastFrame
    /\ codec.decoded.opusData = OpusData(codec.params.size)

-----------------------------------------------------------------------------
(* Claims about OCB2 *)

\* C20: what encrypt produced is accepted by a peer holding the matching IV and
\* decrypts to the plaintext that was encrypted; with one bit of the ciphertext
\* or of the three tag bytes flipped, decrypt rejects the datagram.
C20_AeadRoundTrip ==
  /\ aead.op = "roundtrip" => (aead.sent /\ aead.ok /\ aead.out = aead.plain)
  /\ aead.op = "flipped" => (aead.sent /\ ~aead.ok)

-----------------------------------------------------------------------------
(* Claims about the registries of the TLS client *)

\* C21: every user in a TLS client's users registry is in a channel that its
\* channels registry holds, or in root (0).
C21_UsersInKnownChannels ==
  \A i \in ConnIds : \A p \in conns[i].users : p[2] = 0 \/ p[2] \in conns[i].channels

-----------------------------------------------------------------------------
(* A MumbleUdpVoiceClient between its TCP client and the server *)

CryptSetupKinds == {"full", "shortKey", "resync", "strayNonce", "request"}

\* the CryptSetup message of each kind; a resync carries the server's encrypt IV
cryptSetupOf(kind) ==
  CASE kind = "full" -> FullCryptSetup
    [] kind = "shortKey" -> ShortKeyCryptSetup
    [] kind = "resync" -> NonceCryptSetup(udpVoice.srv.encryptIv)
    [] kind = "strayNonce" -> NonceCryptSetup(nonce(5, 7))
    [] OTHER -> NoCryptSetup

\* the server sends a CryptSetup over TLS: the TCP client keeps its fields and
\* emits 'cryptSetup' to the UDP client, if one is subscribed
UdpCryptSetup(kind) ==
  /\ udpVoice.setups < MaxUdpSetups
  /\ kind = "resync" => udpVoice.srv.init
  /\ \E msg \in {cryptSetupOf(kind)} :
       udpVoice' =
         [udpVoice EXCEPT
            !.known = udpKeepCryptSetup(@, msg),
            !.c = IF @.subscribed THEN udpOnCryptSetup(@, msg) ELSE @,
            !.srv = IF kind = "full"
                    THEN setKey(@, msg.key, msg.serverNonce, msg.clientNonce)
                    ELSE @,
            !.setups = @ + 1,
            !.step = [op |-> IF udpVoice.c.subscribed THEN "cryptSetup" ELSE "kept",
                      msg |-> msg, before |-> udpVoice.c]]
  /\ udpVoiceIdle

\* new MumbleSession with params.udp: the UDP client is constructed
UdpConstruct ==
  /\ udpVoice.stage = "tcp"
  /\ udpVoice' = [udpVoice EXCEPT
                    !.stage = "session",
                    !.c = NewUdpVoiceClient(udpVoice.known),
                    !.step = [NoUdpStep EXCEPT !.op = "construct"]]
  /\ udpVoiceIdle

\* the server encrypts a datagram; unless it is lost, the socket hands it to
\* _onUdpMessage
UdpServerDatagram(kind, lost) ==
  /\ udpVoice.stage = "session"
  /\ udpVoice.srv.init
  /\ udpVoice.datagrams < MaxUdpDatagrams
  /\ \E e \in {encrypt(udpVoice.srv, ServerPlains[kind])} :
       udpVoice' =
         [udpVoice EXCEPT
            !.srv = e.cs,
            !.c = IF lost THEN @ ELSE udpOnUdpMessage(@, e.out),
            !.datagrams = @ + 1,
            !.pkt = kind,
            !.step = [op |-> IF lost THEN "lost" ELSE "datagram", msg |-> NoCryptSetup,
                      before |-> udpVoice.c]]
  /\ udpVoiceIdle

\* a datagram that the server did not encrypt reaches the socket
UdpStrayDatagram(bytes) ==
  /\ udpVoice.stage = "session"
  /\ udpVoice.datagrams < MaxUdpDatagrams
  /\ udpVoice' =
       [udpVoice EXCEPT
          !.c = udpOnUdpMessage(@, bytes),
          !.datagrams = @ + 1,
          !.pkt = "stray",
          !.step = [op |-> "datagram", msg |-> NoCryptSetup, before |-> udpVoice.c]]
  /\ udpVoiceIdle

\* the 5 s ping interval fires
UdpPingTimer ==
  /\ udpVoice.c.pingTimer
  /\ udpVoice.pings < MaxUdpPings
  /\ udpVoice' =
       [udpVoice EXCEPT
          !.c = udpSendPing(@, @.clock + 1),
          !.pings = @ + 1,
          !.step = [op |-> "ping", msg |-> NoCryptSetup, before |-> udpVoice.c]]
  /\ udpVoiceIdle

\* MumbleSession.close closes the UDP client
UdpClose ==
  /\ udpVoice.stage = "session"
  /\ ~udpVoice.c.closed
  /\ udpVoice' =
       [udpVoice EXCEPT
          !.c = udpClose(@),
          !.step = [op |-> "close", msg |-> NoCryptSetup, before |-> udpVoice.c]]
  /\ udpVoiceIdle

NextUdp ==
  \/ \E kind \in CryptSetupKinds : UdpCryptSetup(kind)
  \/ UdpConstruct
  \/ \E kind \in {"ping", "opus", "other"}, lost \in BOOLEAN : UdpServerDatagram(kind, lost)
  \/ \E bytes \in StrayDatagrams : UdpStrayDatagram(bytes)
  \/ UdpPingTimer
  \/ UdpClose

SpecUdp == Init /\ [][NextUdp]_vars

\* C29: the UDP client is not ready when constructed; it becomes ready only in
\* a step that hands it a datagram which decrypt accepted under an installed
\* key; while ready it holds a key; and a step emits udpReady once if it made
\* the client ready and not at all otherwise.
C29_ReadyOnlyAfterDecrypt ==
  LET c == udpVoice.c
      before == udpVoice.step.before
      became == c.udpReady /\ ~before.udpReady
  IN /\ udpVoice.step.op \in {"none", "construct"} => ~c.udpReady
     /\ became => /\ udpVoice.step.op = "datagram"
                  /\ before.crypt.init
                  /\ c.decrypted = before.decrypted + 1
     /\ c.udpReady => c.crypt.init
     /\ udpVoice.step.op \notin {"none", "construct"} =>
          c.udpReadyEvents = before.udpReadyEvents + (IF became THEN 1 ELSE 0)

\* a datagram has just made the keyed client ready
C29_Witness ==
  /\ udpVoice.step.op = "datagram"
  /\ ~udpVoice.step.before.udpReady
  /\ udpVoice.c.udpReady
  /\ udpVoice.c.udpReadyEvents = 1

\* C30: a CryptSetup that carries only a server nonce, delivered to a ready
\* client, replaces the decrypt IV, leaves the key and the encrypt IV alone,
\* counts one resync and leaves the client not ready.
C30_ResyncLeavesReady ==
  LET c == udpVoice.c
      before == udpVoice.step.before
  IN (/\ udpVoice.step.op = "cryptSetup"
      /\ udpVoice.step.msg.present = {"serverNonce"}
      /\ before.udpReady)
     => /\ c.crypt.decryptIv = udpVoice.step.msg.serverNonce
        /\ c.crypt.rawKey = before.crypt.rawKey
        /\ c.crypt.encryptIv = before.crypt.encryptIv
        /\ c.crypt.statsLocal.resync = before.crypt.statsLocal.resync + 1
        /\ ~c.udpReady

-----------------------------------------------------------------------------
(* Claims about the uplink pacer *)

\* C23: once the session is no longer the current one, no timer callback passes
\* a frame or an end marker of it to sendOpusFrame or sendOpusEnd, and a tick
\* that found the session replaced has left its pacer stopped with an empty queue.
C23_StaleTickSendsNothing ==
  ~pacer.live =>
    /\ pacer.sentFrames + pacer.sentEnds = pacer.sentAtEnd
    /\ pacer.staleTicks > 0 => (~pacer.timer /\ pacer.queue = <<>>)

\* a tick found the session replaced while frames were queued
C23_Witness ==
  /\ pacer.staleTicks = 1
  /\ pacer.enqueued > pacer.sentFrames + pacer.droppedFramesTotal

-----------------------------------------------------------------------------
(* Queue caps: a flood on the gateway pacer, and the browser's uplink queue *)

\* opus frames that arrive at the gateway before the next tick of its pacer
FloodFrames == VOICE_UPLINK_PACING_MAX_QUEUE_FRAMES + 2
\* uplink messages that follow the flood, and pacer ticks followed after it
MaxFloodArrivals == 2
MaxFloodTicks == 3

\* enqueueOpus n times over
RECURSIVE enqueueMany(_, _)
enqueueMany(p, n) ==
  IF n = 0 THEN p
  ELSE IF n = 1 THEN enqueueOpus(p)
  ELSE LET half == enqueueMany(p, n \div 2)
       IN IF half.enqueued >= 0 THEN enqueueMany(half, n - n \div 2) ELSE half

\* FloodFrames 0x12 frames arrive before the next tick of the pacer
UplinkFlood ==
  /\ pacer.live
  /\ pacer.bursts = 0
  /\ pacer' = enqueueMany([pacer EXCEPT !.bursts = @ + 1, !.arrived = @ + FloodFrames],
                          FloodFrames)
  /\ pacerIdle

\* a 0x12 frame arrives after the flood
FloodOpus ==
  /\ pacer.bursts > 0
  /\ pacer.sinceBurst < MaxFloodArrivals
  /\ pacer' = enqueueOpus(arrive(pacer))
  /\ pacerIdle

\* a 0x03 frame arrives after the flood
FloodEnd ==
  /\ pacer.bursts > 0
  /\ pacer.sinceBurst < MaxFloodArrivals
  /\ pacer' = enqueueEnd(arrive(pacer))
  /\ pacerIdle

\* one of the first ticks of the pacer after the flood
FloodTick ==
  /\ pacer.bursts > 0
  /\ pacer.sentFrames + pacer.sentEnds < MaxFloodTicks + 1
  /\ PacerTick

\* the encoder hands a frame to sendMicOpus
MicOpus(congested) ==
  /\ browser.mic < MaxMicFrames
  /\ browser' = [sendMicOpus([browser EXCEPT !.mic = @ + 1], browser.mic + 1, congested)
                   EXCEPT !.step = [op |-> "micOpus", queue |-> browser.queue,
                                    droppedTotal |-> browser.droppedTotal,
                                    congested |-> congested]]
  /\ browserIdle

\* push-to-talk is released: sendMicEnd
MicEnd ==
  /\ browser.ends = 0
  /\ browser' = [sendMicEnd(browser)
                   EXCEPT !.step = [NoBrowserStep EXCEPT !.op = "micEnd"]]
  /\ browserIdle

\* the 20 ms interval of the browser's pacer fires
BrowserTick(congested, room) ==
  /\ browser.pacerId
  /\ browser' = [uplinkPacerTick(browser, congested, room)
                   EXCEPT !.step = [NoBrowserStep EXCEPT !.op = "tick"]]
  /\ browserIdle

NextCap ==
  \/ UplinkFlood
  \/ FloodOpus
  \/ FloodEnd
  \/ FloodTick
  \/ \E congested \in BOOLEAN : MicOpus(congested)
  \/ MicEnd
  \/ \E congested \in BOOLEAN, room \in {1, UPLINK_TICK_BURST} : BrowserTick(congested, room)

SpecCap == Init /\ [][NextCap]_vars

\* C25: the gateway's pacer queue never holds more than
\* VOICE_UPLINK_PACING_MAX_QUEUE_FRAMES items and the browser's uplink queue never
\* more than 10; capping a gateway queue that has grown past the limit removes
\* exactly its oldest items and adds their number to droppedFramesTotal; and a
\* frame pushed on a full browser queue leaves the ten newest frames in it and
\* adds the number removed to droppedTotal.
C25_QueuesCapped ==
  /\ Len(pacer.queue) <= VOICE_UPLINK_PACING_MAX_QUEUE_FRAMES
  /\ \A item \in {"opus", "end"} :
       LET pushed == [pacer EXCEPT !.queue = Append(@, item)]
           capped == capQueue(pushed)
           drop == Len(pushed.queue) - Len(capped.queue)
       IN /\ Len(capped.queue) = Min({Len(pushed.queue), VOICE_UPLINK_PACING_MAX_QUEUE_FRAMES})
          /\ capped.queue = SubSeq(pushed.queue, drop + 1, Len(pushed.queue))
          /\ capped.droppedFramesTotal = pacer.droppedFramesTotal + drop
  /\ Len(browser.queue) <= UPLINK_QUEUE_MAX
  /\ (browser.step.op = "micOpus" /\ ~browser.step.congested
        /\ (browser.step.queue # <<>> \/ browser.pacerId)
        /\ Len(browser.step.queue) > 0) =>
       LET pushed == Append(browser.step.queue, browser.mic)
           drop == IF Len(pushed) > UPLINK_QUEUE_MAX THEN Len(pushed) - UPLINK_QUEUE_MAX ELSE 0
       IN /\ browser.queue = SubSeq(pushed, drop + 1, Len(pushed))
          /\ browser.droppedTotal = browser.step.droppedTotal + drop

\* the gateway has capped a queue of 201 items to 200 and counted one dropped,
\* and the browser has just pushed a frame on a queue of ten
C25_Witness ==
  /\ Len(pacer.queue) = VOICE_UPLINK_PACING_MAX_QUEUE_FRAMES
  /\ pacer.droppedFramesTotal > 0
  /\ browser.step.op = "micOpus"
  /\ Len(browser.step.queue) = UPLINK_QUEUE_MAX
  /\ Len(browser.queue) = UPLINK_QUEUE_MAX
  /\ browser.droppedTotal > browser.step.droppedTotal

\* the end markers in a queue
ends(q) == Len(SelectSeq(q, LAMBDA x : x = "end"))

\* C26: the pacer queue never holds more than one end marker; an end marker
\* that arrives while the queue is empty is sent at once and not queued; one
\* that arrives otherwise becomes the last item of the queue and the only end
\* marker in it; and whenever an end marker is sent, no Opus frame precedes it
\* in the queue.
C26_OneEndInOrder ==
  /\ [](ends(pacer.queue) <= 1)
  /\ [][/\ (UplinkEnd /\ pacer.queue = <<>>) =>
             (pacer'.sentEnds = pacer.sentEnds + 1 /\ pacer'.queue = <<>>)
        /\ (UplinkEnd /\ pacer.queue # <<>>) =>
             /\ pacer'.sentEnds = pacer.sentEnds
             /\ pacer'.queue # <<>>
             /\ pacer'.queue[Len(pacer'.queue)] = "end"
             /\ ends(pacer'.queue) = 1
        /\ pacer'.sentEnds > pacer.sentEnds =>
             (pacer.queue = <<>> \/ Head(pacer.queue) = "end")]_vars

\* an end marker is queued behind an Opus frame after another was sent at once
C26_Witness ==
  /\ Len(pacer.queue) >= 2
  /\ pacer.queue[Len(pacer.queue)] = "end"
  /\ Head(pacer.queue) = "opus"
  /\ pacer.sentEnds > 0

\* C27: an Opus frame that arrives while the pacer queue is empty and the send
\* buffer is not held full is passed to sendOpusFrame within its handler, and
\* no pacer timer is running when the handler returns.
C27_IdleFastPath ==
  [][(UplinkOpus /\ pacer.queue = <<>> /\ ~pacer.congested) =>
       (pacer'.sentFrames = pacer.sentFrames + 1 /\ ~pacer'.timer)]_vars

\* The pacer with an interval timer that keeps firing while it is set
SpecPacerLive == Init /\ [][NextPacer]_vars /\ WF_vars(PacerTick)

\* C28: a tick that finds the queue empty more than the idle timeout after the
\* last uplink message stops the pacer; a running pacer timer is eventually
\* cleared; and a cleared timer is set again only by a step in which an uplink
\* message arrives.
C28_IdlePacerStops ==
  /\ [][(PacerTick /\ pacer.live /\ pacer.queue = <<>>
           /\ pacer'.elapsed > VOICE_UPLINK_PACING_IDLE_TIMEOUT_MS) => ~pacer'.timer]_vars
  /\ (pacer.timer ~> ~pacer.timer)
  /\ [][(~pacer.timer /\ pacer'.timer) =>
          (pacer'.arrived > pacer.arrived \/ pacer'.bursts > pacer.bursts)]_vars

\* an idle tick has stopped the pacer of a live session that sent no end marker
C28_Witness ==
  /\ ~pacer.timer
  /\ pacer.live
  /\ pacer.arrived > 0
  /\ pacer.sentEnds = 0
  /\ pacer.elapsed > VOICE_UPLINK_PACING_IDLE_TIMEOUT_MS

-----------------------------------------------------------------------------
(* Claims about failed connects *)

\* C24: once a connect has failed, the TLS client it created is not left with
\* an open socket or a running keepalive timer.
C24_FailedConnectClosesTls ==
  \A i \in ConnIds :
    conns[i].phase = "failed" => (~conns[i].keepalive /\ conns[i].sock # "open")

-----------------------------------------------------------------------------
(* Sessions that are built, used and torn down *)

\* cleanup() of the supervisor
cleanupSession(t) ==
  IF t.session
  THEN [t EXCEPT !.metricsInterval = FALSE,
                 !.s.uplinkPacer = [stopVoiceUplinkPacer(@) EXCEPT !.live = FALSE],
                 !.s.mumbleUnsubscribers = 0,
                 !.s.mumble = mumbleClose(@),
                 !.session = FALSE]
  ELSE [t EXCEPT !.metricsInterval = FALSE, !.session = FALSE]

\* the connect branch: cleanup(), then the session is installed with its
\* forwarders and the metrics interval; known says whether the TLS client holds
\* a full CryptSetup when the MumbleSession is built
TeardownConnect(known) ==
  /\ teardown.connects < MaxTeardownConnects
  /\ teardown' =
       [teardown EXCEPT
          !.sup = [cleanupSession(@) EXCEPT
                     !.session = TRUE,
                     !.metricsInterval = TRUE,
                     !.s = SessionObject(NewSession(IF known THEN FullCryptSetup
                                                    ELSE NoCryptSetup)),
                     !.sent.ws = @ + 2],
          !.connects = @ + 1,
          !.uplinks = 0,
          !.op = "connect",
          !.before = teardown.sup]
  /\ teardownIdle

\* a voice uplink message of the peer: ignored without a session
TeardownUplink(kind) ==
  /\ teardown.uplinks < MaxTeardownUplinks
  /\ teardown' =
       [teardown EXCEPT
          !.sup = IF ~@.session THEN @
                  ELSE [@ EXCEPT !.s.uplinkPacer =
                          IF kind = "opus" THEN enqueueOpus(@) ELSE enqueueEnd(@)],
          !.uplinks = @ + 1,
          !.op = "uplink",
          !.before = teardown.sup]
  /\ teardownIdle

\* the interval timer of the session's pacer fires
TeardownPacerTick ==
  /\ teardown.sup.s.uplinkPacer.timer
  /\ teardown' =
       [teardown EXCEPT
          !.sup.s.uplinkPacer = tickVoiceUplinkPacer(@),
          !.op = "pacerTick",
          !.before = teardown.sup]
  /\ teardownIdle

\* a full CryptSetup arrives after the session was built
TeardownCryptSetup ==
  /\ teardown.sup.s.mumble.udp.subscribed
  /\ ~teardown.sup.s.mumble.udp.crypt.init
  /\ teardown' =
       [teardown EXCEPT
          !.sup.s.mumble.udp = udpOnCryptSetup(@, FullCryptSetup),
          !.op = "cryptSetup",
          !.before = teardown.sup]
  /\ teardownIdle

\* the 2.5 s fallback timeout fires: a ping is tunnelled unless UDP is ready
TeardownFallback ==
  /\ teardown.sup.s.mumble.fallbackTimer
  /\ teardown' =
       [teardown EXCEPT
          !.sup.s.mumble.fallbackTimer = FALSE,
          !.sup.sent.tls =
             IF teardown.sup.s.mumble.hasUdp /\ ~teardown.sup.s.mumble.udp.udpReady
                  /\ ~teardown.sup.s.mumble.tcp.closed
             THEN @ + 1 ELSE @,
          !.op = "fallback",
          !.before = teardown.sup]
  /\ teardownIdle

\* the 10 s keepalive of the TLS client fires
TeardownKeepalive ==
  /\ teardown.sup.s.mumble.tcp.keepalive
  /\ teardown.sup.sent.tls < MaxTeardownKeepalives
  /\ teardown' =
       [teardown EXCEPT
          !.sup.sent.tls = IF teardown.sup.s.mumble.tcp.closed THEN @ ELSE @ + 1,
          !.op = "keepalive",
          !.before = teardown.sup]
  /\ teardownIdle

\* the Mumble server closes the TLS connection: _onClose, and the forwarder of
\* 'disconnected' tells the peer
TeardownSocketClose ==
  /\ teardown.sup.s.mumble.tcp.sock \in {"open", "closing"}
  /\ teardown' =
       [teardown EXCEPT
          !.sup.s.mumble.tcp = onClose(@),
          !.sup.sent.ws = IF teardown.sup.s.mumbleUnsubscribers > 0 THEN @ + 1 ELSE @,
          !.op = "socketClose",
          !.before = teardown.sup]
  /\ teardownIdle

\* cleanup(), as called by the disconnect branch and by ws.on('close')
TeardownCleanup ==
  /\ teardown' =
       [teardown EXCEPT !.sup = cleanupSession(@), !.op = "cleanup", !.before = teardown.sup]
  /\ teardownIdle

NextTeardown ==
  \/ \E known \in BOOLEAN : TeardownConnect(known)
  \/ \E kind \in {"opus", "end"} : TeardownUplink(kind)
  \/ TeardownPacerTick
  \/ TeardownCryptSetup
  \/ TeardownFallback
  \/ TeardownKeepalive
  \/ TeardownSocketClose
  \/ TeardownCleanup

SpecTeardown == Init /\ [][NextTeardown]_vars

\* C22: after cleanup() session and the metrics interval are null; if there was
\* a session, its pacer timer is cleared and its queue empty, its forwarders and
\* the relays of its Mumble session are unsubscribed, the fallback timer, the
\* keepalive and the UDP ping timer are cleared and the TLS and UDP sockets are
\* closed; cleanup() has sent nothing; and calling it again changes nothing.
C22_CleanupIdempotent ==
  teardown.op = "cleanup" =>
    LET sup == teardown.sup
        m == sup.s.mumble
    IN /\ ~sup.session
       /\ ~sup.metricsInterval
       /\ teardown.before.session =>
            /\ ~sup.s.uplinkPacer.timer
            /\ sup.s.uplinkPacer.queue = <<>>
            /\ sup.s.mumbleUnsubscribers = 0
            /\ m.unsubscribers = 0
            /\ ~m.fallbackTimer
            /\ m.tcp.closed /\ ~m.tcp.keepalive /\ m.tcp.sock # "open"
            /\ m.udp.closed /\ ~m.udp.pingTimer /\ ~m.udp.subscribed
            /\ m.udp.socket = "closed"
       /\ sup.sent = teardown.before.sent
       /\ m.udp.sentPings = teardown.before.s.mumble.udp.sentPings
       /\ cleanupSession(sup) = sup

\* cleanup() has torn down a session whose pacer, fallback timer and UDP ping
\* timer were running
C22_Witness ==
  /\ teardown.op = "cleanup"
  /\ teardown.before.session
  /\ teardown.before.s.uplinkPacer.timer
  /\ teardown.before.s.mumble.fallbackTimer
  /\ teardown.before.s.mumble.udp.pingTimer
  /\ teardown.before.s.mumble.tcp.keepalive

\* C31: a CryptSetup without fields, delivered to the UDP client in any state,
\* makes it send one CryptSetup whose clientNonce is its encrypt IV, and leaves
\* its key and both IVs as they were.
C31_RequestAnswered ==
  LET c == udpVoice.c
      before == udpVoice.step.before
  IN (/\ udpVoice.step.op = "cryptSetup"
      /\ udpVoice.step.msg.present = {})
     => /\ c.sentCryptSetups = before.sentCryptSetups + 1
        /\ c.sentNonce = before.crypt.encryptIv
        /\ c.crypt.rawKey = before.crypt.rawKey
        /\ c.crypt.encryptIv = before.crypt.encryptIv
        /\ c.crypt.decryptIv = before.crypt.decryptIv

-----------------------------------------------------------------------------
(* Claims about the outbound voice of a session with a UDP client *)

\* the opus payload sendOpusFrame is called with; sendOpusEnd sends none
SentOpusData == <<90, 91>>

\* MumbleSession.sendOpusFrame (isLastFrame false) or sendOpusEnd (true) on the
\* session, open or closed; this._udp is null once the session is closed
UdpSendOpus(isLastFrame, throws) ==
  /\ udpVoice.stage = "session"
  /\ udpVoice.sends < MaxUdpSends
  /\ \E r \in {sendPacket(udpVoice.c, ~udpVoice.c.closed, udpVoice.c.closed,
                          encodeLegacyOpusPacket(0, BigInt(udpVoice.sends),
                                                 IF isLastFrame THEN <<>> ELSE SentOpusData,
                                                 isLastFrame),
                          throws)} :
       udpVoice' =
         [udpVoice EXCEPT
            !.c = r.u,
            !.out = r.out,
            !.sends = @ + 1,
            !.step = [op |-> "send", msg |-> NoCryptSetup, before |-> udpVoice.c]]
  /\ udpVoiceIdle

\* a session over a server that sends the key and pings, and a peer that speaks
NextSend ==
  \/ UdpCryptSetup("full")
  \/ UdpConstruct
  \/ UdpServerDatagram("ping", FALSE)
  \/ \E isLastFrame \in BOOLEAN, throws \in BOOLEAN : UdpSendOpus(isLastFrame, throws)
  \/ UdpClose

SpecSend == Init /\ [][NextSend]_vars

\* C32: a sendOpusFrame / sendOpusEnd call puts its packet on at most one
\* transport. It goes to the UDP socket exactly when the session has a UDP
\* client that is ready and sendPlainPacket returned true; otherwise it is
\* handed to the TCP client as a UDPTunnel message whose payload is the packet,
\* byte for byte, which the client writes unless it is closed. Nothing is put
\* on both.
C32_OneTransport ==
  LET o == udpVoice.out
      before == udpVoice.step.before
  IN udpVoice.step.op = "send" =>
       /\ Len(o.udp) + (IF o.tls = <<>> THEN 0 ELSE 1) <= 1
       /\ o.ready <=> (~before.closed /\ before.udpReady)
       /\ o.tried <=> o.ready
       /\ o.ok => o.tried /\ ~before.closed /\ before.crypt.init
       /\ (o.udp # <<>>) <=> (o.ready /\ o.ok)
       /\ (o.udp = <<>> /\ ~before.closed) =>
            /\ Len(o.tls) = 6 + Len(o.packet)
            /\ SubSeq(o.tls, 1, 6) = <<0, UDPTunnel, 0, 0, 0, Len(o.packet)>>
            /\ SubSeq(o.tls, 7, Len(o.tls)) = o.packet
       /\ before.closed => o.udp = <<>> /\ o.tls = <<>>

\* a ready client's sendPlainPacket failed and the packet went through the tunnel
C32_Witness ==
  /\ udpVoice.step.op = "send"
  /\ udpVoice.out.ready
  /\ ~udpVoice.out.ok
  /\ udpVoice.out.udp = <<>>
  /\ udpVoice.out.tls # <<>>

-----------------------------------------------------------------------------
(* Claims about the dedup map *)

\* C33: after any _emitVoice call the dedup map holds at most 4096 entries, and
\* when the call found more than 2048 entries in it, no entry older than
\* 1500 ms is left afterwards. (A map that still holds more than 2048 entries
\* after a call that recorded its frame held more than 2048 during the call.)
C33_SweepEvictsStale ==
  /\ mapSize(recentVoiceFrames) <= ClearSize
  /\ (/\ vlast.kind = "burst" \/ (vlast.kind \in {"udp", "tunnel"} /\ vlast.emitted)
      /\ mapSize(recentVoiceFrames) > SweepSize)
     => \A j \in DOMAIN recentVoiceFrames : now - recentVoiceFrames[j].ts <= StaleMs

-----------------------------------------------------------------------------
(* Claims about packets the voice decoder turns down *)

\* the server sends a voice packet through the TLS connection: the TCP client
\* emits 'udpTunnel' and the session's _onTunnelPacket decodes the payload
UdpTunnel(kind) ==
  /\ udpVoice.stage = "session"
  /\ ~udpVoice.c.closed
  /\ udpVoice.datagrams < MaxUdpDatagrams
  /\ udpVoice' =
       [udpVoice EXCEPT
          !.tunnel = onTunnelPacket(@, decodeLegacyVoicePacketFromServer(ServerPlains[kind])),
          !.datagrams = @ + 1,
          !.pkt = kind,
          !.step = [op |-> "tunnel", msg |-> NoCryptSetup, before |-> udpVoice.c]]
  /\ udpVoiceIdle

\* a session whose server sends every kind of voice packet over both transports
NextDrop ==
  \/ UdpCryptSetup("full")
  \/ UdpConstruct
  \/ \E kind \in DOMAIN ServerPlains : UdpServerDatagram(kind, FALSE)
  \/ \E kind \in DOMAIN ServerPlains : UdpTunnel(kind)
  \/ UdpPingTimer
  \/ UdpClose

SpecDrop == Init /\ [][NextDrop]_vars

\* C36: a voice packet the decoder cannot decode, received in a datagram that
\* decrypt accepted or through the tunnel, is dropped: no exception leaves the
\* handler that received it, no voiceOpus and no udpRtt is emitted for it, and
\* the client stays open.
C36_UndecodableDropped ==
  LET c == udpVoice.c
      before == udpVoice.step.before
  IN /\ (udpVoice.step.op = "datagram" /\ udpVoice.pkt \in Undecodable) =>
          /\ c.escaped = before.escaped
          /\ c.voiceEvents = before.voiceEvents
          /\ c.pendingPings = before.pendingPings
          /\ c.closed = before.closed
     /\ (udpVoice.step.op = "tunnel" /\ udpVoice.pkt \in Undecodable) =>
          /\ udpVoice.tunnel.last \in {"returned", "caught"}
          /\ c = before

-----------------------------------------------------------------------------
(* Claims about the framer of the TLS stream *)

\* messages the server writes on one connection
MaxTcpMessages == 3
\* bytes the server writes on one connection
MaxStream == 290
\* the longest chunk the socket hands over
MaxChunk == 24
\* a type above 255 and unknown to the client
UnknownType == 258

\* a payload whose length does not fit the last byte of the header
LongPayload == 256

FramerMessages ==
  { [type |-> CryptSetup, payload |-> <<>>],
    [type |-> UDPTunnel, payload |-> <<32, 1>>],
    [type |-> UnknownType, payload |-> <<7>>],
    [type |-> UDPTunnel, payload |-> [k \in 1..LongPayload |-> k % 256]],
    [type |-> TextMessage, payload |-> uint32(1, 300) \o writeString(5, <<104, 105>>)] }

\* the server writes one message to the socket
TcpServerWrite(m) ==
  /\ Len(tcpClient.sent) < MaxTcpMessages
  /\ Len(tcpClient.stream) + 6 + Len(m.payload) <= MaxStream
  /\ ~tcpClient.hungUp
  /\ ~tcpClient.c.destroyed
  /\ tcpClient' = [tcpClient EXCEPT
       !.sent = Append(@, m),
       !.stream = @ \o sendMessageBytes(FALSE, m.type, m.payload)]
  /\ UNCHANGED <<supVars, voiceVars>>
  /\ tcpClientIdle

\* socket.on('data'): the next n bytes of the stream arrive as one chunk, or all
\* that is left of it when n is the longest chunk
TcpData(n) ==
  /\ ~tcpClient.c.destroyed
  /\ tcpClient.arrived < Len(tcpClient.stream)
  /\ tcpClient.arrived + n <= Len(tcpClient.stream) \/ n = MaxChunk
  /\ \E end \in {IF tcpClient.arrived + n <= Len(tcpClient.stream)
                  THEN tcpClient.arrived + n ELSE Len(tcpClient.stream)} :
     \E after \in {tcpOnData(tcpClient.c,
                              SubSeq(tcpClient.stream, tcpClient.arrived + 1, end))} :
       tcpClient' = [tcpClient EXCEPT
         !.c = after,
         !.arrived = end,
         !.joined = @ \/ (tcpClient.c.buffer # <<>>
                          /\ Len(after.did) > Len(tcpClient.c.did))]
  /\ UNCHANGED <<supVars, voiceVars>>
  /\ tcpClientIdle

NextFramer ==
  \/ \E m \in FramerMessages : TcpServerWrite(m)
  \/ \E n \in 1..MaxChunk : TcpData(n)

SpecFramer == Init /\ [][NextFramer]_vars

\* the (type, payload) pairs a client handed to _handleMessage, in order
Dispatched(c) ==
  LET d == SelectSeq(c.did, LAMBDA x : x.k = "message")
  IN [k \in 1..Len(d) |-> [type |-> d[k].id, payload |-> d[k].data]]

\* the bytes of the first k messages on the stream
RECURSIVE FrameEnd(_, _)
FrameEnd(msgs, k) ==
  IF k = 0 THEN 0 ELSE FrameEnd(msgs, k - 1) + 6 + Len(msgs[k].payload)

\* how many of the messages are whole within the first n bytes of the stream
WholeFrames(msgs, n) ==
  Cardinality({k \in 1..Len(msgs) : FrameEnd(msgs, k) <= n})

\* C37: however the stream is cut into chunks, the messages handed to
\* _handleMessage are those the unsplit stream gives, in stream order: exactly
\* the messages whose 6 + length bytes have all arrived, each once.
C37_ChunkIndependent ==
  \E unsplit \in {tcpOnData(NewTcpClient, SubSeq(tcpClient.stream, 1, tcpClient.arrived))} :
    /\ Dispatched(tcpClient.c) = Dispatched(unsplit)
    /\ Dispatched(tcpClient.c)
         = SubSeq(tcpClient.sent, 1, WholeFrames(tcpClient.sent, tcpClient.arrived))
    /\ tcpClient.c.buffer = unsplit.buffer

\* three messages dispatched, one of them completed by a later chunk than the
\* one its first bytes came in, and the stream fully drained
C37_Witness ==
  /\ tcpClient.joined
  /\ Len(Dispatched(tcpClient.c)) = MaxTcpMessages
  /\ tcpClient.c.buffer = <<>>
  /\ \E k \in DOMAIN tcpClient.sent : tcpClient.sent[k].type = UnknownType

-----------------------------------------------------------------------------
(* Claims about a connection the server rejects *)

\* calls made on one client: joinChannel, sendTextMessage, keepalive ticks
MaxTcpCalls == 1
\* TcpMessageType.Ping
TcpPing == 3
\* Reject.RejectType WrongUserPW
WrongUserPW == 4

RejectedMessages ==
  { [type |-> Reject, payload |-> uint32(1, WrongUserPW) \o writeString(2, <<110, 111>>)],
    [type |-> UserState, payload |-> uint32(1, 7) \o uint32(5, 2)],
    [type |-> TextMessage, payload |-> uint32(1, 7) \o writeString(5, <<104, 105>>)],
    [type |-> UDPTunnel, payload |-> <<32, 1>>] }

\* the session calls joinChannel
TcpJoinChannel(channelId) ==
  /\ tcpClient.calls < MaxTcpCalls
  /\ tcpClient' = [tcpClient EXCEPT !.c = joinChannel(@, channelId), !.calls = @ + 1]
  /\ UNCHANGED <<supVars, voiceVars>>
  /\ tcpClientIdle

\* the session calls sendTextMessage
TcpSendText ==
  /\ tcpClient.calls < MaxTcpCalls
  /\ tcpClient' = [tcpClient EXCEPT !.c = sendTextMessage(@, <<104, 105>>, 0),
                                    !.calls = @ + 1]
  /\ UNCHANGED <<supVars, voiceVars>>
  /\ tcpClientIdle

\* the keepalive interval of `connect` fires
TcpKeepalive ==
  /\ tcpClient.calls < MaxTcpCalls
  /\ tcpClient.c.keepalive
  /\ tcpClient' = [tcpClient EXCEPT
       !.c = tcpSendMessage(@, TcpPing, uint32(1, tcpClient.calls)),
       !.calls = @ + 1]
  /\ UNCHANGED <<supVars, voiceVars>>
  /\ tcpClientIdle

\* the session closes the client
TcpClose ==
  /\ ~tcpClient.c.closed
  /\ tcpClient' = [tcpClient EXCEPT !.c = closeSocket(@)]
  /\ UNCHANGED <<supVars, voiceVars>>
  /\ tcpClientIdle

\* the server closes the connection after all it wrote was delivered
TcpHangUp ==
  /\ ~tcpClient.hungUp
  /\ ~tcpClient.c.destroyed
  /\ tcpClient.arrived = Len(tcpClient.stream)
  /\ tcpClient' = [tcpClient EXCEPT !.hungUp = TRUE]
  /\ UNCHANGED <<supVars, voiceVars>>
  /\ tcpClientIdle

\* socket.once('close'), after the server hung up or the client destroyed the socket
TcpSocketClose ==
  /\ tcpClient.hungUp \/ tcpClient.c.destroyed
  /\ ~tcpClient.closeEmitted
  /\ tcpClient' = [tcpClient EXCEPT !.c = tcpOnClose(@), !.closeEmitted = TRUE]
  /\ UNCHANGED <<supVars, voiceVars>>
  /\ tcpClientIdle

\* the chunks the socket hands over: short of a header, or up to three messages
CoarseChunks == {5, MaxChunk}

NextRejected ==
  \/ \E m \in RejectedMessages : TcpServerWrite(m)
  \/ \E n \in CoarseChunks : TcpData(n)
  \/ TcpJoinChannel(2)
  \/ TcpSendText
  \/ TcpKeepalive
  \/ TcpClose
  \/ TcpHangUp
  \/ TcpSocketClose

SpecRejected == Init /\ [][NextRejected]_vars

\* the events of the channel and user registry, of text and of voice
SessionEvents ==
  {"channelUpsert", "channelRemove", "userUpsert", "userRemove", "textMessage", "udpTunnel"}

\* the positions in what the client did where it emitted 'reject'
Rejections(c) == {i \in DOMAIN c.did : c.did[i].k = "emit" /\ c.did[i].e = "reject"}

\* 'reject' carries the server's reason, and the client is closed with its
\* keepalive timer cleared
RejectSurfaced(c) ==
  \A i \in Rejections(c) :
    /\ c.did[i].id = WrongUserPW /\ c.did[i].data = <<110, 111>>
    /\ c.closed /\ ~c.keepalive /\ c.destroyed

\* nothing is written to the socket after 'reject'
NoWriteAfterReject(c) ==
  \A i \in Rejections(c) : \A j \in DOMAIN c.did : j > i => c.did[j].k # "write"

\* no registry, text or voice event follows 'reject'
NoEventAfterReject(c) ==
  \A i \in Rejections(c) : \A j \in DOMAIN c.did :
    j > i => ~(c.did[j].k = "emit" /\ c.did[j].e \in SessionEvents)

\* 'disconnected' is emitted at most once
DisconnectedOnce(c) ==
  Cardinality({i \in DOMAIN c.did : c.did[i].k = "emit" /\ c.did[i].e = "disconnected"}) <= 1

\* C38: a handled Reject emits 'reject' with the server's reason and leaves the
\* client closed: keepalive cleared, no later write to the socket, no later
\* registry, text or voice event (messages buffered behind the Reject included),
\* 'disconnected' at most once.
C38_RejectCloses ==
  /\ RejectSurfaced(tcpClient.c)
  /\ NoWriteAfterReject(tcpClient.c)
  /\ NoEventAfterReject(tcpClient.c)
  /\ DisconnectedOnce(tcpClient.c)

\* the parts of C38 other than the events of messages buffered behind the Reject
RejectClosesSocket ==
  /\ RejectSurfaced(tcpClient.c)
  /\ NoWriteAfterReject(tcpClient.c)
  /\ DisconnectedOnce(tcpClient.c)

\* a rejected client on which a call was made after the Reject and whose socket
\* has emitted 'close'
RejectedThenCalled ==
  /\ Rejections(tcpClient.c) # {}
  /\ tcpClient.calls > 0
  /\ tcpClient.closeEmitted

-----------------------------------------------------------------------------
(* Claims about the client's own session id *)

\* ServerSync with and without a session, and the UserState of the client's user
SyncMessages ==
  { [type |-> ServerSync, payload |-> uint32(1, 7) \o uint32(2, 72000)],
    [type |-> ServerSync, payload |-> uint32(2, 72000) \o writeString(3, <<104, 105>>)],
    [type |-> UserState, payload |-> uint32(1, 7) \o writeString(3, <<97>>)] }

JoinTargets == {0, 2}

NextSync ==
  \/ \E m \in SyncMessages : TcpServerWrite(m)
  \/ \E n \in CoarseChunks : TcpData(n)
  \/ \E channelId \in JoinTargets : TcpJoinChannel(channelId)

SpecSync == Init /\ [][NextSync]_vars

\* the positions where the client finished handling a ServerSync
Syncs(c) == {i \in DOMAIN c.did : c.did[i].k = "emit" /\ c.did[i].e = "serverSync"}

\* the positions where the client wrote a UserState to the socket
Joins(c) == {j \in DOMAIN c.did : c.did[j].k = "write" /\ c.did[j].id = UserState}

\* a joinChannel before any ServerSync sends no session field
JoinBeforeSyncOmits(c) ==
  \A j \in Joins(c) :
    (\A i \in Syncs(c) : i > j) =>
      LET u == decodeUserState(c.did[j].data)
      IN u.ok /\ ~u.session.has /\ u.channelId.has /\ u.channelId.v \in JoinTargets

\* a joinChannel after a ServerSync carries the session id the client then had
JoinAfterSyncCarries(c) ==
  \A j \in Joins(c) : \A i \in Syncs(c) :
    (i < j /\ \A k \in Syncs(c) : k <= i \/ k > j) =>
      LET u == decodeUserState(c.did[j].data)
      IN u.ok /\ u.session = Some(c.did[i].id) /\ c.did[i].id # 0

\* C39: once a ServerSync has been handled selfUserId is not 0; a joinChannel
\* before it sends a UserState without the session field, one after it a
\* UserState with session = selfUserId.
C39_SelfKnownAfterSync ==
  /\ Syncs(tcpClient.c) # {} => tcpClient.c.selfUserId # 0
  /\ JoinBeforeSyncOmits(tcpClient.c)
  /\ JoinAfterSyncCarries(tcpClient.c)

\* what joinChannel does whatever the ServerSync held: the session field is the
\* client's selfUserId when that is not 0, and is left out when it is 0
JoinFollowsSelfUserId ==
  /\ JoinBeforeSyncOmits(tcpClient.c)
  /\ \A j \in Joins(tcpClient.c) : \A i \in Syncs(tcpClient.c) :
       (i < j /\ \A k \in Syncs(tcpClient.c) : k <= i \/ k > j) =>
         LET u == decodeUserState(tcpClient.c.did[j].data)
             self == tcpClient.c.did[i].id
         IN u.ok /\ u.session = (IF self # 0 THEN Some(self) ELSE NoNumber)

-----------------------------------------------------------------------------
(* Claims about the channel registry *)

\* A ChannelState as the server holds it before writing it
CS(channelId, parent, name, links, linksAdd, linksRemove, description, position) ==
  [type |-> ChannelState, channelId |-> channelId, parent |-> parent, name |-> name,
   links |-> links, linksAdd |-> linksAdd, linksRemove |-> linksRemove,
   description |-> description, position |-> position]

\* a ChannelRemove: only the channel id counts
CR(channelId) ==
  [CS(Some(channelId), NoNumber, NoString, <<>>, <<>>, <<>>, NoString, NoNumber)
     EXCEPT !.type = ChannelRemove]

ChannelMessages ==
  { CS(Some(0), NoNumber, Some(<<82>>), <<>>, <<>>, <<>>, NoString, NoNumber),
    CS(Some(0), Some(5), NoString, <<>>, <<>>, <<>>, NoString, NoNumber),
    CS(Some(1), Some(0), Some(<<97>>), <<2, 3>>, <<>>, <<>>, Some(<<100>>), Some(4)),
    CS(Some(1), NoNumber, NoString, <<>>, <<4>>, <<2>>, NoString, NoNumber),
    CS(Some(1), NoNumber, NoString, <<2>>, <<4>>, <<>>, NoString, NoNumber),
    CS(Some(1), NoNumber, NoString, <<>>, <<>>, <<2, 3>>, NoString, NoNumber),
    CS(Some(1), Some(7), Some(<<98>>), <<>>, <<>>, <<>>, NoString, Some(0)),
    CS(Some(1), NoNumber, NoString, <<>>, <<3>>, <<3>>, Some(<<>>), NoNumber),
    CS(NoNumber, NoNumber, Some(<<120>>), <<3>>, <<>>, <<>>, NoString, NoNumber),
    CR(1) }

RECURSIVE repeated(_, _)
repeated(fieldNumber, ids) ==
  IF ids = <<>> THEN <<>>
  ELSE uint32(fieldNumber, ids[1]) \o repeated(fieldNumber, Tail(ids))

\* the protobuf bytes of a message of the server, fields in field-number order
wireOf(m) ==
  (IF m.channelId.has THEN uint32(1, m.channelId.v) ELSE <<>>)
  \o (IF m.type = ChannelRemove THEN <<>>
      ELSE (IF m.parent.has THEN uint32(2, m.parent.v) ELSE <<>>)
           \o (IF m.name.has THEN writeString(3, m.name.v) ELSE <<>>)
           \o repeated(4, m.links)
           \o (IF m.description.has THEN writeString(5, m.description.v) ELSE <<>>)
           \o repeated(6, m.linksAdd)
           \o repeated(7, m.linksRemove)
           \o (IF m.position.has THEN uint32(9, m.position.v) ELSE <<>>))

NextChannel ==
  \/ \E m \in ChannelMessages : TcpServerWrite([type |-> m.type, payload |-> wireOf(m)])
  \/ \E n \in CoarseChunks : TcpData(n)

SpecChannel == Init /\ [][NextChannel]_vars

\* the server's message behind a dispatched (type, payload)
Written(d) == CHOOSE m \in ChannelMessages : m.type = d.type /\ wireOf(m) = d.payload

\* The channel a ChannelState m leaves behind, by the merge rule: the fields take
\* the message's value when present and keep the previous one when absent; the
\* link set is replaced by a full list, changed by a delta, or kept.
\* rootKeepsNoParent tells whether channel 0 never gets a parent.
Merged(known, prev, m, rootKeepsNoParent) ==
  [id |-> m.channelId.v,
   name |-> IF m.name.has THEN m.name.v ELSE IF known THEN prev.name ELSE <<>>,
   parentId |-> IF rootKeepsNoParent /\ m.channelId.v = 0 THEN NoNumber
                ELSE IF m.parent.has THEN m.parent
                ELSE IF known THEN prev.parentId ELSE NoNumber,
   position |-> IF m.position.has THEN m.position
                ELSE IF known THEN prev.position ELSE NoNumber,
   description |-> IF m.description.has THEN m.description
                   ELSE IF known THEN prev.description ELSE NoString,
   links |-> LET before == IF known THEN prev.links ELSE {}
             IN IF m.links # <<>> THEN SeqRange(m.links)
                ELSE IF m.linksAdd # <<>> \/ m.linksRemove # <<>>
                THEN (before \cup SeqRange(m.linksAdd)) \ SeqRange(m.linksRemove)
                ELSE before]

\* the registry after the first k dispatched messages, by the merge rule
RECURSIVE MergedChannels(_, _, _)
MergedChannels(d, k, rootKeepsNoParent) ==
  IF k = 0 THEN <<>>
  ELSE LET before == MergedChannels(d, k - 1, rootKeepsNoParent)
           m == Written(d[k])
       IN IF ~m.channelId.has THEN before
          ELSE IF m.type = ChannelRemove THEN MapDelete(before, m.channelId.v)
          ELSE MapSet(before, m.channelId.v,
                      Merged(m.channelId.v \in DOMAIN before, before[m.channelId.v],
                             m, rootKeepsNoParent))

\* the client's registry, each channel's links as a set
StoredChannels(c) ==
  [id \in DOMAIN c.channels |-> [c.channels[id] EXCEPT !.links = SeqRange(@)]]

\* C40: after every ChannelState the stored link set is the message's links when
\* it has a full list, else the previous set plus linksAdd minus linksRemove when
\* either is populated, else the previous set; name, position and description
\* take the message's value when present and keep the previous one when absent,
\* and so does parentId, except that channel 0 never has a parent.
C40_ChannelMerge ==
  LET d == Dispatched(tcpClient.c)
  IN StoredChannels(tcpClient.c) = MergedChannels(d, Len(d), TRUE)

\* C40 as stated: parentId too takes the message's value whenever it is present
C40_ChannelMergeAsStated ==
  LET d == Dispatched(tcpClient.c)
  IN StoredChannels(tcpClient.c) = MergedChannels(d, Len(d), FALSE)

\* channel 1 went through a full list and then a delta that left it with links,
\* and its name came from an earlier message than its links
C40_Witness ==
  LET d == Dispatched(tcpClient.c)
  IN /\ Len(d) = MaxTcpMessages
     /\ Written(d[1]).links = <<2, 3>>
     /\ Written(d[2]).name = Some(<<98>>)
     /\ Written(d[3]).linksAdd = <<4>> /\ Written(d[3]).linksRemove = <<2>>
     /\ 1 \in DOMAIN tcpClient.c.channels
     /\ SeqRange(tcpClient.c.channels[1].links) = {3, 4}
     /\ tcpClient.c.channels[1].name = <<98>>
     /\ tcpClient.c.channels[1].parentId = Some(7)

====
